---- MODULE Spec2Model ----
(***************************************************************************)
(* A model of the distributed training driver of Grendel-GS:               *)
(*   - utils/general_utils.py : init_distributed, the four process groups, *)
(*     check_update_at_this_iter, the float all-gather helper;             *)
(*   - train.py : __main__, training(), densification().                   *)
(* Every worker (rank) is a process with its own copy of the module-level  *)
(* globals of utils and of args.  Workers interact only through blocking   *)
(* collectives, which are matched by call order inside a group.            *)
(***************************************************************************)
EXTENDS Integers, Sequences, FiniteSets, TLC

\* ------------------------------------------------------------------ bounds
MaxWorld == 4          \* largest WORLD_SIZE explored for init_distributed
MaxGpus == 3           \* largest torch.cuda.device_count() explored
MaxBsz == 2            \* largest args.bsz explored

VARIABLES
    WORLD_SIZE,        \* os.environ["WORLD_SIZE"], the same for every worker
    device_count,      \* torch.cuda.device_count() on the (homogeneous) nodes
    args,              \* the parsed command line, the same for every worker
    mp_size,           \* args.mp_size as set by init_distributed, per worker
    DP_GROUP, MP_GROUP, DEFAULT_GROUP, IN_NODE_GROUP,   \* utils globals, per worker
    new_groups,        \* per worker: the dist.new_group calls made, in order
    pc,                \* per worker: position in __main__ / training()
    issued,            \* per worker: the collective calls issued so far, in order
    wait,              \* per worker: the collective call it is blocked in
    queue,             \* per worker: the collective calls it makes next, in order
    gathered,          \* per worker: the list the last all-gather returned
    iteration,         \* per worker: the loop variable of training()
    micro_step,        \* per worker: the loop variable of the micro-step loop
    phases,            \* per worker: the phases executed in the current iteration
    batched_screenspace_pkg,   \* per worker: what the micro steps of the iteration collected
    disable_auto_densification,   \* per worker: args.disable_auto_densification
    DENSIFY_ITER,      \* per worker: utils.DENSIFY_ITER
    testing_iterations, \* per worker: args.test_iterations, popped by training_report
    batched_strategies,   \* per worker: the strategies started for the batch
    backward_grad,     \* per worker: the gradient loss.backward() leaves on a mean2D
    model_params,      \* per worker: what gaussians.capture() would return
    param_grad,        \* per worker: the micro steps whose gradients the .grad of the parameters hold
    checkpoints,       \* the checkpoint files on disk
    strategy_history,  \* one StrategyHistory of cameraId2StrategyHistory
    gaussians,         \* the entities and the worker that owns each one
    cameras,           \* the Camera objects constructed so far, in order
    call_record,       \* a call of a function on its own: its arguments, and what it returned in a 1-tuple
    cameraId2StrategyHistory,   \* per worker: the map of training(), view -> its history
    losses_cpu,        \* per worker: the list handed to train_dataset.update_losses
    evaluation,        \* per worker: what the last evaluation pass of training_report did
    disk_log           \* per worker: the folders and files it created, in order

groupVars == <<DP_GROUP, MP_GROUP, DEFAULT_GROUP, IN_NODE_GROUP>>
confVars == <<WORLD_SIZE, device_count, args, backward_grad>>
libVars == <<strategy_history, gaussians, cameras, call_record>>
outVars == <<cameraId2StrategyHistory, losses_cpu, evaluation, disk_log>>
topoVars == <<mp_size, groupVars, new_groups>>
commVars == <<issued, wait, queue, gathered>>
loopVars == <<iteration, micro_step, phases, batched_screenspace_pkg,
             batched_strategies>>
densVars == <<disable_auto_densification, DENSIFY_ITER>>
trainVars == <<loopVars, densVars, testing_iterations, model_params, param_grad,
              checkpoints>>
vars == <<confVars, libVars, outVars, topoVars, pc, commVars, trainVars>>

Ranks == 0 .. (WORLD_SIZE - 1)

\* ------------------------------------------------------------ python helpers
\* list(range(start, stop, step)) for step >= 1
RangeList(start, stop, step) ==
    [i \in 1 .. (IF stop > start THEN (stop - start + step - 1) \div step ELSE 0)
        |-> start + (i - 1) * step]

SeqToSet(s) == {s[i] : i \in DOMAIN s}

\* list.index(x), 0-based; -1 when absent
IndexOf(s, x) ==
    IF \E i \in DOMAIN s : s[i] = x
    THEN (CHOOSE i \in DOMAIN s : s[i] = x /\ \A j \in 1 .. (i - 1) : s[j] # x) - 1
    ELSE -1

\* ------------------------------------------------------------ group handles
\* A process-group handle as one worker holds it: the ordered rank list it was
\* created from, or the single-process stand-in.
NoGroup == [kind |-> "none", ranks |-> <<>>]
SingleGPUGroup == [kind |-> "single", ranks |-> <<0>>]
ProcessGroup(rank_list) == [kind |-> "dist", ranks |-> rank_list]

GroupSize(g) == Len(g.ranks)
GroupRank(g, GLOBAL_RANK) == IF g.kind = "single" THEN 0 ELSE IndexOf(g.ranks, GLOBAL_RANK)

\* ------------------------------------------------------------ init_distributed
WorldSizeAssert_Dropped(world_size, dp_size) == TRUE

\* assert WORLD_SIZE % args.dp_size == 0
WorldSizeAssert(world_size, dp_size) == world_size % dp_size = 0

dp_rank_Swapped(GLOBAL_RANK, mp) == GLOBAL_RANK % mp

dp_rank(GLOBAL_RANK, mp) == GLOBAL_RANK \div mp

mp_rank(GLOBAL_RANK, mp) == GLOBAL_RANK % mp

dp_group_ranks(rank, world_size, mp) == RangeList(rank, world_size, mp)

mp_group_ranks(rank, mp) == RangeList(rank * mp, (rank + 1) * mp, 1)

in_node_group_ranks(rank, num_gpu_per_node) ==
    RangeList(rank * num_gpu_per_node, (rank + 1) * num_gpu_per_node, 1)

all_DP_GROUP(world_size, mp) ==
    [k \in 1 .. mp |-> dp_group_ranks(k - 1, world_size, mp)]

all_MP_GROUP(dp_size, mp) ==
    [k \in 1 .. dp_size |-> mp_group_ranks(k - 1, mp)]

n_of_nodes(world_size, num_gpu_per_node) == world_size \div num_gpu_per_node

all_in_node_group(world_size, num_gpu_per_node) ==
    [k \in 1 .. n_of_nodes(world_size, num_gpu_per_node)
        |-> in_node_group_ranks(k - 1, num_gpu_per_node)]

node_rank(GLOBAL_RANK, num_gpu_per_node) == GLOBAL_RANK \div num_gpu_per_node

NewGroupCalls(kind, lists) == [k \in DOMAIN lists |-> [kind |-> kind, ranks |-> lists[k]]]

\* One collective call: the operation, the group it runs on, the source line
\* of the call site, the iteration it belongs to and the data contributed.
Call(op, group, site, iter, data) ==
    [op |-> op, group |-> group, site |-> site, iter |-> iter, data |-> data]
NoCall == Call("none", "none", 0, 0, <<>>)
LogEntry(c) == [op |-> c.op, group |-> c.group, site |-> c.site, iter |-> c.iter]

Handle(r, group) ==
    CASE group = "GLOBAL" -> DEFAULT_GROUP[r]
      [] group = "DP" -> DP_GROUP[r]
      [] group = "MP" -> MP_GROUP[r]
      [] OTHER -> IN_NODE_GROUP[r]

\* lines 145-155, 193-197: read the environment; world size 1 takes the four
\* stand-in groups; otherwise open the default process group and check dp_size.
InitProcessGroup(r) ==
    /\ pc[r] = "init_distributed"
    /\ IF WORLD_SIZE > 1
       THEN /\ issued' = [issued EXCEPT ![r] =
                    Append(@, LogEntry(Call("init_process_group", "GLOBAL", 150, 0, <<>>)))]
            /\ IF WorldSizeAssert(WORLD_SIZE, args.dp_size)
               THEN /\ mp_size' = [mp_size EXCEPT ![r] = WORLD_SIZE \div args.dp_size]
                    /\ pc' = [pc EXCEPT ![r] = "new_groups"]
               ELSE /\ pc' = [pc EXCEPT ![r] = "AssertionError_world_size"]
                    /\ UNCHANGED mp_size
            /\ UNCHANGED <<DP_GROUP, MP_GROUP, DEFAULT_GROUP, IN_NODE_GROUP>>
       ELSE /\ DP_GROUP' = [DP_GROUP EXCEPT ![r] = SingleGPUGroup]
            /\ MP_GROUP' = [MP_GROUP EXCEPT ![r] = SingleGPUGroup]
            /\ DEFAULT_GROUP' = [DEFAULT_GROUP EXCEPT ![r] = SingleGPUGroup]
            /\ IN_NODE_GROUP' = [IN_NODE_GROUP EXCEPT ![r] = SingleGPUGroup]
            /\ pc' = [pc EXCEPT ![r] = "init_args"]
            /\ UNCHANGED <<issued, mp_size>>
    /\ UNCHANGED <<confVars, libVars, outVars, new_groups, wait, queue, gathered, trainVars>>

CreateParallelGroups_OwnOnly(r) ==
    LET mp == mp_size[r]
        own_dp == dp_group_ranks(mp_rank(r, mp), WORLD_SIZE, mp)
        own_mp == mp_group_ranks(dp_rank(r, mp), mp)
    IN  /\ pc[r] = "new_groups"
        /\ new_groups' = [new_groups EXCEPT ![r] =
                @ \o <<[kind |-> "DP", ranks |-> own_dp], [kind |-> "MP", ranks |-> own_mp]>>]
        /\ DP_GROUP' = [DP_GROUP EXCEPT ![r] = ProcessGroup(own_dp)]
        /\ MP_GROUP' = [MP_GROUP EXCEPT ![r] = ProcessGroup(own_mp)]
        /\ DEFAULT_GROUP' = [DEFAULT_GROUP EXCEPT ![r] = ProcessGroup(RangeList(0, WORLD_SIZE, 1))]
        /\ pc' = [pc EXCEPT ![r] = "in_node_groups"]
        /\ UNCHANGED <<confVars, libVars, outVars, mp_size, IN_NODE_GROUP, commVars, trainVars>>

\* lines 165-180: every worker creates every DATA_PARALLEL group, then every
\* MODEL_PARALLEL group, and keeps the one of its own column / row.
CreateParallelGroups(r) ==
    LET mp == mp_size[r]
        dps == all_DP_GROUP(WORLD_SIZE, mp)
        mps == all_MP_GROUP(args.dp_size, mp)
        di == mp_rank(r, mp) + 1
        mi == dp_rank(r, mp) + 1
    IN  /\ pc[r] = "new_groups"
        /\ new_groups' = [new_groups EXCEPT ![r] =
                @ \o NewGroupCalls("DP", dps) \o NewGroupCalls("MP", mps)]
        /\ IF di \in DOMAIN dps /\ mi \in DOMAIN mps
           THEN /\ DP_GROUP' = [DP_GROUP EXCEPT ![r] = ProcessGroup(dps[di])]
                /\ MP_GROUP' = [MP_GROUP EXCEPT ![r] = ProcessGroup(mps[mi])]
                /\ DEFAULT_GROUP' = [DEFAULT_GROUP EXCEPT ![r] =
                        ProcessGroup(RangeList(0, WORLD_SIZE, 1))]
                /\ pc' = [pc EXCEPT ![r] = "in_node_groups"]
           ELSE /\ pc' = [pc EXCEPT ![r] = "IndexError"]
                /\ UNCHANGED <<DP_GROUP, MP_GROUP, DEFAULT_GROUP>>
        /\ UNCHANGED <<confVars, libVars, outVars, mp_size, IN_NODE_GROUP, commVars, trainVars>>

\* lines 182-190: one NODE_LOCAL group per full node; the worker keeps the
\* one of its node, all_in_node_group[node_rank].
CreateInNodeGroups(r) ==
    LET groups == all_in_node_group(WORLD_SIZE, device_count)
        ni == node_rank(r, device_count) + 1
    IN  /\ pc[r] = "in_node_groups"
        /\ new_groups' = [new_groups EXCEPT ![r] = @ \o NewGroupCalls("NODE", groups)]
        /\ IF ni \in DOMAIN groups
           THEN /\ IN_NODE_GROUP' = [IN_NODE_GROUP EXCEPT ![r] = ProcessGroup(groups[ni])]
                /\ pc' = [pc EXCEPT ![r] = "init_args"]
           ELSE /\ pc' = [pc EXCEPT ![r] = "IndexError"]
                /\ UNCHANGED IN_NODE_GROUP
        /\ UNCHANGED <<confVars, libVars, outVars, mp_size, DP_GROUP, MP_GROUP, DEFAULT_GROUP,
                       commVars, trainVars>>

\* ------------------------------------------------------------ collectives
Crashed(r) == pc[r] \in {"AssertionError_world_size", "AssertionError_bsz",
                         "AssertionError_number_files", "FileNotFoundError",
                         "IndexError", "AttributeError", "RuntimeError_torch_save",
                         "AssertionError_stop_update_param"}

\* The worker is running python code: not blocked in a collective and with no
\* collective call left to make before the code at pc.
Ready(r) == wait[r] = NoCall /\ queue[r] = <<>> /\ ~Crashed(r)

\* A torch.distributed call on the next queued group.  On a real process group
\* the caller blocks until the group completes the call; the stand-in group of
\* world size 1 has none of the methods torch calls, and the call raises.
IssueQueued(r) ==
    /\ wait[r] = NoCall
    /\ queue[r] # <<>>
    /\ ~Crashed(r)
    /\ LET c == Head(queue[r])
       IN  /\ issued' = [issued EXCEPT ![r] = Append(@, LogEntry(c))]
           /\ IF Handle(r, c.group).kind = "dist"
              THEN /\ wait' = [wait EXCEPT ![r] = c]
                   /\ queue' = [queue EXCEPT ![r] = Tail(@)]
                   /\ UNCHANGED pc
              ELSE /\ pc' = [pc EXCEPT ![r] = "AttributeError"]
                   /\ queue' = [queue EXCEPT ![r] = <<>>]
                   /\ UNCHANGED wait
    /\ UNCHANGED <<confVars, libVars, outVars, topoVars, gathered, trainVars>>

\* data_gpu = torch.tensor(data, dtype=torch.float32).  A number is held as an
\* integer count of its unit (memory: allocator blocks of 512 bytes, so that
\* GiB = count / 2^21 exactly); a float32 keeps 24 significant bits, so counts
\* from 2^24 on are rounded to a multiple of 2, from 2^25 on of 4, to the
\* nearest and ties to even.
Float32Of_Identity(x) == x

Float32Of(x) ==
    LET step == IF x < 16777216 THEN 1 ELSE IF x < 33554432 THEN 2 ELSE 4
        q == x \div step
        rem2 == 2 * (x % step)
    IN  IF rem2 < step THEN step * q
        ELSE IF rem2 > step THEN step * (q + 1)
        ELSE IF q % 2 = 0 THEN step * q ELSE step * (q + 1)

\* our_allgather_among_cpu_processes_float_list: row i of the result is the
\* float32 image of the list contributed by the member with group rank i.
AllGatherResult(h, calls) ==
    [i \in 1 .. Len(h.ranks) |->
        [k \in 1 .. Len(calls[h.ranks[i]].data) |-> Float32Of(calls[h.ranks[i]].data[k])]]

\* The sum of f over the set S
RECURSIVE SumOver(_, _)
SumOver(f, S) ==
    IF S = {} THEN 0
    ELSE LET x == CHOOSE x \in S : TRUE IN f[x] + SumOver(f, S \ {x})

\* The largest value of f over the non-empty set S
MaxOver(f, S) == CHOOSE v \in {f[x] : x \in S} : \A x \in S : f[x] <= v

\* torch.distributed.all_reduce(tensor, op=dist.ReduceOp.SUM, group) (train.py
\* 309): what every member of the group holds in the tensor afterwards.  The
\* data of the call is the position of the tensor in its list and its content.
AllReduceResult_Max(h, calls) ==
    MaxOver([m \in SeqToSet(h.ranks) |-> calls[m].data[2]], SeqToSet(h.ranks))

AllReduceResult(h, calls) ==
    SumOver([m \in SeqToSet(h.ranks) |-> calls[m].data[2]], SeqToSet(h.ranks))

\* A collective completes when every member of the group is blocked in the
\* same operation on that group, matched by call order: all of them return.
\* An all-gather returns its list, an all-reduce of a gradient (train.py 309)
\* or of the evaluation sum l1_test (529) writes the tensor in place.
CollectiveComplete(r) ==
    /\ wait[r] # NoCall
    /\ LET c == wait[r]
           h == Handle(r, c.group)
           members == SeqToSet(h.ranks)
       IN  /\ r = h.ranks[1]
           /\ \A m \in members :
                 /\ wait[m].op = c.op
                 /\ wait[m].group = c.group
                 /\ Handle(m, c.group) = h
                 /\ Len(wait[m].data) = Len(c.data)
           /\ wait' = [m \in Ranks |-> IF m \in members THEN NoCall ELSE wait[m]]
           /\ gathered' = [m \in Ranks |->
                 IF m \in members /\ c.op = "all_gather_into_tensor"
                 THEN AllGatherResult(h, wait)
                 ELSE gathered[m]]
           /\ batched_screenspace_pkg' = [m \in Ranks |->
                 IF m \in members /\ c.op = "all_reduce" /\ c.site = 309
                 THEN [batched_screenspace_pkg[m] EXCEPT
                          !.mean2D_grad[wait[m].data[1]] = AllReduceResult(h, wait)]
                 ELSE batched_screenspace_pkg[m]]
           /\ evaluation' = [m \in Ranks |->
                 IF m \in members /\ c.op = "all_reduce" /\ c.site = 529
                 THEN [evaluation[m] EXCEPT
                          ![wait[m].data[1]].l1_test = AllReduceResult(h, wait)]
                 ELSE evaluation[m]]
    /\ UNCHANGED <<confVars, libVars, cameraId2StrategyHistory, losses_cpu, disk_log,
                   topoVars, pc, issued, queue, iteration, micro_step,
                   phases, batched_strategies, densVars, testing_iterations,
                   model_params, param_grad, checkpoints>>

\* ------------------------------------------------------------ __main__
\* train.py 557-559: init_args and set_args; arguments.init_args is not part
\* of the sources at hand, its checks are not modelled.
InitArgs(r) ==
    /\ pc[r] = "init_args"
    /\ pc' = [pc EXCEPT ![r] = "log_folder"]
    /\ UNCHANGED <<confVars, libVars, outVars, topoVars, commVars, trainVars>>

\* train.py 563-568: the first worker of each node creates the folders, then
\* every worker of a distributed run meets at a barrier.
CreateLogFolder(r) ==
    /\ pc[r] = "log_folder"
    /\ Ready(r)
    /\ queue' = [queue EXCEPT ![r] =
            IF WORLD_SIZE > 1 THEN <<Call("barrier", "GLOBAL", 568, 0, <<>>)>> ELSE <<>>]
    /\ pc' = [pc EXCEPT ![r] = "training_setup"]
    /\ UNCHANGED <<confVars, libVars, outVars, topoVars, issued, wait, gathered, trainVars>>

\* ------------------------------------------------------------ training()
\* check_update_at_this_iter (general_utils.py 108-117)
check_update_at_this_iter_FirstTestOnly(iter, bsz, update_interval, update_residual) ==
    LET residual_l == iter % update_interval
        residual_r == residual_l + bsz
    IN  residual_l <= update_residual /\ update_residual < residual_r

check_update_at_this_iter(iter, bsz, update_interval, update_residual) ==
    LET residual_l == iter % update_interval
        residual_r == residual_l + bsz
    IN  \/ (residual_l <= update_residual /\ update_residual < residual_r)
        \/ (residual_l <= update_residual + update_interval
              /\ update_residual + update_interval < residual_r)

\* check_enable_python_timer (general_utils.py 103-106), CUR_ITER = iter
check_enable_python_timer(iter) ==
    /\ args.zhx_python_time
    /\ \/ check_update_at_this_iter(iter, args.bsz, args.log_interval, 1)
       \/ iter \in args.force_python_timer_iterations

\* globally_sync_for_timer (train.py 45-47), called at line `site`
globally_sync_for_timer(r, site) ==
    IF check_enable_python_timer(iteration[r]) /\ GroupSize(DEFAULT_GROUP[r]) > 1
    THEN <<Call("barrier", "GLOBAL", site, iteration[r], <<>>)>>
    ELSE <<>>

BszAssert_Dropped(bsz, dp_size) == TRUE

\* assert args.bsz % args.dp_size == 0 (train.py 213)
BszAssert(bsz, dp_size) == bsz % dp_size = 0

num_samples_per_dp_worker == args.bsz \div args.dp_size

\* batched_screenspace_pkg as line 196 creates it: the locally preprocessed
\* mean2D tensors and the .grad.data of each, the statistic collectors (held as the running time each
\* one reports) and the losses of the micro steps
EmptyPkg == [batched_locally_preprocessed_mean2D |-> <<>>,
             mean2D_grad |-> <<>>,
             statistic_collectors |-> <<>>,
             losses |-> <<>>]

\* args.start_checkpoint == "" (train.py 148): no checkpoint to start from.
\* A checkpoint folder is named by the iteration it was saved at.
NoCheckpoint == 0

\* What GaussianModel and training_setup create (train.py 139-146) on worker
\* rank of world workers: the updates of no batch yet, the shard of this worker
FreshModelParams(rank, world) == [updates |-> {}, shard |-> <<rank, world>>]

\* os.listdir(args.start_checkpoint) (train.py 149)
FilesOf(folder) == {f \in checkpoints : f.folder = folder}

\* The assertion of train.py 150
NumberFilesAssert_Dropped(number_files, size) == TRUE

NumberFilesAssert(number_files, size) == number_files = size

\* train.py 128-175: the set-up before the loop; start_from_this_iteration is
\* 1, or the iteration of the checkpoint plus bsz after a restore (148-158)
TrainingSetup(r) ==
    /\ pc[r] = "training_setup"
    /\ Ready(r)
    /\ IF args.start_checkpoint = NoCheckpoint
       THEN /\ iteration' = [iteration EXCEPT ![r] = 1]
            /\ pc' = [pc EXCEPT ![r] = "loop_head"]
            /\ UNCHANGED model_params
       ELSE IF ~NumberFilesAssert(Cardinality(FilesOf(args.start_checkpoint)),
                                  GroupSize(DEFAULT_GROUP[r]))
            THEN /\ pc' = [pc EXCEPT ![r] = "AssertionError_number_files"]
                 /\ UNCHANGED <<iteration, model_params>>
            ELSE IF \E f \in FilesOf(args.start_checkpoint) :
                        f.rank = GroupRank(DEFAULT_GROUP[r], r)
                 THEN LET f == CHOOSE f \in FilesOf(args.start_checkpoint) :
                                   f.rank = GroupRank(DEFAULT_GROUP[r], r)
                      IN  /\ model_params' = [model_params EXCEPT ![r] = f.model_params]
                          /\ iteration' = [iteration EXCEPT ![r] = f.iteration + args.bsz]
                          /\ pc' = [pc EXCEPT ![r] = "loop_head"]
                 ELSE /\ pc' = [pc EXCEPT ![r] = "FileNotFoundError"]
                      /\ UNCHANGED <<iteration, model_params>>
    /\ UNCHANGED <<confVars, libVars, outVars, topoVars, commVars, micro_step, phases,
                   batched_screenspace_pkg, batched_strategies, densVars, testing_iterations,
                   param_grad, checkpoints>>

\* train.py 176-192: the loop test of range(start, iterations + 1, bsz), the
\* more_sync barrier and the step initialisation; 472-474 after the loop.
LoopHead(r) ==
    /\ pc[r] = "loop_head"
    /\ Ready(r)
    /\ IF iteration[r] > args.iterations
       THEN /\ pc' = [pc EXCEPT ![r] = "done"]
            /\ UNCHANGED <<queue, phases>>
       ELSE /\ phases' = [phases EXCEPT ![r] = <<>>]
            /\ queue' = [queue EXCEPT ![r] =
                    IF args.more_sync
                    THEN <<Call("barrier", "GLOBAL", 179, iteration[r], <<>>)>>
                    ELSE <<>>]
            /\ pc' = [pc EXCEPT ![r] = "prepare_strategies"]
    /\ UNCHANGED <<confVars, libVars, outVars, topoVars, issued, wait, gathered, iteration, micro_step,
                   batched_screenspace_pkg, batched_strategies, densVars, testing_iterations,
                   model_params, param_grad, checkpoints>>

\* A Strategy as training() sees it: the state of its life cycle (started,
\* measured, finished) and the running times update_stats gave it.  The
\* class is not part of the sources at hand.
StartedStrategy == [state |-> "started", stats |-> <<>>]

\* Strategy.update_stats(all_running_time_cross_mp): started -> measured
update_stats(strategy, times) ==
    IF strategy.state = "started"
    THEN [strategy EXCEPT !.state = "measured", !.stats = times]
    ELSE strategy

\* StrategyHistory.finish_strategy() as the strategy sees it: measured ->
\* finished; without a measurement nothing changes
finish_strategy(strategy) ==
    IF strategy.state = "measured"
    THEN [strategy EXCEPT !.state = "finished"]
    ELSE strategy

NumTestCameras == 3     \* len(scene.getTestCameras())
NumTrainCameras == 2    \* len(scene.getTrainCameras())

\* A map from views to their histories (cameraId2StrategyHistory), as a
\* function on the views it holds.  A history is held as the mode it was
\* created in, the number of strategies it has started and the measured
\* records that finish_strategy has folded into it.
NewHistory(mode) == [mode |-> mode, started |-> 0, records |-> <<>>]

\* get_division_strategy_history(map, viewpoint_cam, mode) (train.py 206,
\* 505): the history of the view, created in the map on first use; the map
\* afterwards
get_division_strategy_history(map, viewpoint_cam, mode) ==
    [c \in DOMAIN map \cup {viewpoint_cam} |->
        IF c \in DOMAIN map THEN map[c] ELSE NewHistory(mode)]

\* strategy_history.start_strategy() on the history of each camera of the
\* list, in order (train.py 206-210, 504-506); the map afterwards
RECURSIVE StartStrategies(_, _, _)
StartStrategies(map, cams, mode) ==
    IF cams = <<>> THEN map
    ELSE StartStrategies(
            [get_division_strategy_history(map, Head(cams), mode)
                EXCEPT ![Head(cams)].started = @ + 1],
            Tail(cams), mode)

\* train_dataset.get_batched_cameras(args.bsz) (train.py 195): the views of
\* the batch of iteration iter, the same on every worker; the dataset hands
\* out its views in turn
BatchedCameras(iter) ==
    [k \in 1 .. args.bsz |-> (iter - 1 + k - 1) % NumTrainCameras]

\* train.py 195-211: pick the batch, create batched_screenspace_pkg, start
\* one strategy per camera
PrepareStrategies(r) ==
    /\ pc[r] = "prepare_strategies"
    /\ Ready(r)
    /\ batched_screenspace_pkg' = [batched_screenspace_pkg EXCEPT ![r] = EmptyPkg]
    /\ batched_strategies' = [batched_strategies EXCEPT ![r] =
          [idx \in 1 .. args.bsz |-> StartedStrategy]]
    /\ cameraId2StrategyHistory' = [cameraId2StrategyHistory EXCEPT ![r] =
          StartStrategies(@, BatchedCameras(iteration[r]), args.workloads_division_mode)]
    /\ phases' = [phases EXCEPT ![r] = Append(@, "start_strategy")]
    /\ pc' = [pc EXCEPT ![r] = "micro_setup"]
    /\ UNCHANGED <<confVars, libVars, losses_cpu, evaluation, disk_log,
                   topoVars, commVars, iteration, micro_step,
                   densVars, testing_iterations,
                   model_params, param_grad, checkpoints>>

\* train.py 213-229: the divisibility assertion, then the first micro step's
\* initialisation up to the timer barrier before preprocessing
MicroBatchSetup(r) ==
    /\ pc[r] = "micro_setup"
    /\ Ready(r)
    /\ IF BszAssert(args.bsz, args.dp_size)
       THEN /\ micro_step' = [micro_step EXCEPT ![r] = 0]
            /\ queue' = [queue EXCEPT ![r] = globally_sync_for_timer(r, 229)]
            /\ pc' = [pc EXCEPT ![r] = "preprocess"]
       ELSE /\ pc' = [pc EXCEPT ![r] = "AssertionError_bsz"]
            /\ UNCHANGED <<micro_step, queue>>
    /\ UNCHANGED <<confVars, libVars, outVars, topoVars, issued, wait, gathered, iteration, phases,
                   batched_screenspace_pkg, batched_strategies, densVars, testing_iterations,
                   model_params, param_grad, checkpoints>>

\* ------------------------------------------------------------ micro steps
\* batched_cameras[micro_step::num_samples_per_dp_worker] (train.py 219), as
\* positions in the batch
micro_batched_cameras_Contiguous(m) ==
    RangeList(m * args.dp_size, (m + 1) * args.dp_size, 1)

micro_batched_cameras(m) == RangeList(m, args.bsz, num_samples_per_dp_worker)

\* batched_strategies[micro_step::num_samples_per_dp_worker] (train.py 220),
\* as positions in the batch
micro_batched_strategies(m) == RangeList(m, args.bsz, num_samples_per_dp_worker)

\* micro_batched_strategies[DP_GROUP.rank()] (train.py 223)
local_render_strategy(r, m) ==
    micro_batched_strategies(m)[GroupRank(DP_GROUP[r], r) + 1]

\* micro_batched_cameras[DP_GROUP.rank()] (train.py 221): the position in the
\* batch of the camera that worker r renders in micro step m
local_render_viewpoint_cam(r, m) ==
    micro_batched_cameras(m)[GroupRank(DP_GROUP[r], r) + 1]

\* screenspace_pkg["batched_locally_preprocessed_mean2D"] (train.py 287): one
\* tensor for each camera of the micro batch
batched_locally_preprocessed_mean2D(cams) == cams

\* The statistic collector of worker r in micro step m (train.py 245), held
\* as the running time it reports; every (worker, micro step) has its own.
stats_collector(r, m) == 10 * (r + 1) + m

\* get_local_running_time_by_modes (train.py 324)
get_local_running_time_by_modes(statistic_collector) == statistic_collector

\* The loss of worker r in micro step m (train.py 264): a value that names the
\* camera and the model-parallel position it was computed for
LossOf(r, m) == 100 * (local_render_viewpoint_cam(r, m) + 1) + GroupRank(MP_GROUP[r], r)

\* The gradient that loss.backward() (train.py 274) leaves on the mean2D of
\* camera cam on worker r: zero when the worker touched nothing
mean2D_grad(r, cam) == backward_grad[r] * (cam + 1)

\* train.py 233-248: preprocess3dgs_and_all2all, then the timer barrier before
\* the render.  The exchanges inside preprocess3dgs_and_all2all are not part of
\* the sources at hand.
Preprocess(r) ==
    /\ pc[r] = "preprocess"
    /\ Ready(r)
    /\ phases' = [phases EXCEPT ![r] = Append(@, "preprocess")]
    /\ queue' = [queue EXCEPT ![r] = globally_sync_for_timer(r, 248)]
    /\ pc' = [pc EXCEPT ![r] = "render"]
    /\ UNCHANGED <<confVars, libVars, outVars, topoVars, issued, wait, gathered, iteration, micro_step,
                   batched_screenspace_pkg, batched_strategies, densVars, testing_iterations,
                   model_params, param_grad, checkpoints>>

\* train.py 249-257
Render(r) ==
    /\ pc[r] = "render"
    /\ Ready(r)
    /\ phases' = [phases EXCEPT ![r] = Append(@, "render")]
    /\ queue' = [queue EXCEPT ![r] = globally_sync_for_timer(r, 257)]
    /\ pc' = [pc EXCEPT ![r] = "loss"]
    /\ UNCHANGED <<confVars, libVars, outVars, topoVars, issued, wait, gathered, iteration, micro_step,
                   batched_screenspace_pkg, batched_strategies, densVars, testing_iterations,
                   model_params, param_grad, checkpoints>>

\* train.py 258-272
Loss(r) ==
    /\ pc[r] = "loss"
    /\ Ready(r)
    /\ phases' = [phases EXCEPT ![r] = Append(@, "loss")]
    /\ queue' = [queue EXCEPT ![r] = globally_sync_for_timer(r, 272)]
    /\ pc' = [pc EXCEPT ![r] = "backward"]
    /\ UNCHANGED <<confVars, libVars, outVars, topoVars, issued, wait, gathered, iteration, micro_step,
                   batched_screenspace_pkg, batched_strategies, densVars, testing_iterations,
                   model_params, param_grad, checkpoints>>

\* train.py 273-293, then either the next micro step up to its timer barrier
\* (217-229) or the end of the micro-step loop up to the barrier of line 301
Backward(r) ==
    /\ pc[r] = "backward"
    /\ Ready(r)
    /\ phases' = [phases EXCEPT ![r] = Append(@, "backward")]
    /\ batched_screenspace_pkg' = [batched_screenspace_pkg EXCEPT ![r] =
          [batched_locally_preprocessed_mean2D |->
               @.batched_locally_preprocessed_mean2D
                  \o batched_locally_preprocessed_mean2D(micro_batched_cameras(micro_step[r])),
           mean2D_grad |->
               @.mean2D_grad
                  \o [k \in DOMAIN micro_batched_cameras(micro_step[r]) |->
                        mean2D_grad(r, micro_batched_cameras(micro_step[r])[k])],
           statistic_collectors |->
               Append(@.statistic_collectors, stats_collector(r, micro_step[r])),
           losses |-> Append(@.losses, LossOf(r, micro_step[r]))]]
    /\ IF micro_step[r] + 1 < num_samples_per_dp_worker
       THEN /\ micro_step' = [micro_step EXCEPT ![r] = @ + 1]
            /\ queue' = [queue EXCEPT ![r] = globally_sync_for_timer(r, 229)]
            /\ pc' = [pc EXCEPT ![r] = "preprocess"]
       ELSE /\ queue' = [queue EXCEPT ![r] = globally_sync_for_timer(r, 301)]
            /\ pc' = [pc EXCEPT ![r] = "sync_gradients"]
            /\ UNCHANGED micro_step
    /\ param_grad' = [param_grad EXCEPT ![r] = @ \cup {<<iteration[r], micro_step[r]>>}]
    /\ UNCHANGED <<confVars, libVars, outVars, topoVars, issued, wait, gathered, iteration,
                   batched_strategies, densVars, testing_iterations,
                   model_params, checkpoints>>

\* ------------------------------------------------------------ after the micro steps
\* The order of the statements of the no_grad block (train.py 296-455) and the
\* end of the iteration (457-470): the phase that follows phase p
PhaseAfter_OptimizerFirst(p) ==
    CASE p = "sync_gradients" -> "update_stats"
      [] p = "update_stats" -> "allgather_loss"
      [] p = "allgather_loss" -> "training_report"
      [] p = "training_report" -> "optimizer_step"
      [] p = "optimizer_step" -> "densification"
      [] p = "densification" -> "save"
      [] p = "save" -> "cleanup"

PhaseAfter(p) ==
    CASE p = "sync_gradients" -> "update_stats"
      [] p = "update_stats" -> "allgather_loss"
      [] p = "allgather_loss" -> "training_report"
      [] p = "training_report" -> "densification"
      [] p = "densification" -> "save"
      [] p = "save" -> "optimizer_step"
      [] p = "optimizer_step" -> "cleanup"

\* train.py 305-317: one all-reduce on the model-parallel group for each
\* locally preprocessed mean2D when the entities are replicated, then the
\* timer barrier.  sync_gradients_for_replicated_3dgs_storage is not part of
\* the sources at hand.
\* The all-reduces of train.py 307-309: one for each tensor of the list,
\* whatever its gradient holds
RECURSIVE GradientReductions_SkipZero(_, _)
GradientReductions_SkipZero(r, k) ==
    IF k > Len(batched_screenspace_pkg[r].batched_locally_preprocessed_mean2D)
    THEN <<>>
    ELSE (IF batched_screenspace_pkg[r].mean2D_grad[k] = 0
          THEN <<>>
          ELSE <<Call("all_reduce", "MP", 309, iteration[r],
                      <<k, batched_screenspace_pkg[r].mean2D_grad[k]>>)>>)
         \o GradientReductions_SkipZero(r, k + 1)

RECURSIVE GradientReductions(_, _)
GradientReductions(r, k) ==
    IF k > Len(batched_screenspace_pkg[r].batched_locally_preprocessed_mean2D)
    THEN <<>>
    ELSE <<Call("all_reduce", "MP", 309, iteration[r],
                <<k, batched_screenspace_pkg[r].mean2D_grad[k]>>)>>
         \o GradientReductions(r, k + 1)

SyncGradients(r) ==
    /\ pc[r] = "sync_gradients"
    /\ Ready(r)
    /\ phases' = [phases EXCEPT ![r] = Append(@, "sync_gradients")]
    /\ queue' = [queue EXCEPT ![r] =
          (IF ~args.gaussians_distribution /\ GroupSize(MP_GROUP[r]) > 1
           THEN GradientReductions(r, 1)
           ELSE <<>>)
          \o globally_sync_for_timer(r, 317)]
    /\ pc' = [pc EXCEPT ![r] = PhaseAfter("sync_gradients")]
    /\ UNCHANGED <<confVars, libVars, outVars, topoVars, issued, wait, gathered, iteration, micro_step,
                   batched_screenspace_pkg, batched_strategies, densVars, testing_iterations,
                   model_params, param_grad, checkpoints>>

\* train.py 318-326: the running times of the micro steps are all-gathered
\* over the global group once the warm-up is over
UpdateStatsGather(r) ==
    /\ pc[r] = "update_stats"
    /\ Ready(r)
    /\ phases' = [phases EXCEPT ![r] = Append(@, "update_stats")]
    /\ IF iteration[r] > args.adjust_strategy_warmp_iterations
            /\ GroupSize(DEFAULT_GROUP[r]) > 1
       THEN /\ queue' = [queue EXCEPT ![r] =
                   <<Call("all_gather_into_tensor", "GLOBAL", 325, iteration[r],
                          [k \in DOMAIN batched_screenspace_pkg[r].statistic_collectors |->
                              get_local_running_time_by_modes(
                                  batched_screenspace_pkg[r].statistic_collectors[k])])>>]
            /\ pc' = [pc EXCEPT ![r] = "update_stats_apply"]
       ELSE /\ pc' = [pc EXCEPT ![r] = PhaseAfter("update_stats")]
            /\ UNCHANGED queue
    /\ UNCHANGED <<confVars, libVars, outVars, topoVars, issued, wait, gathered, iteration, micro_step,
                   batched_screenspace_pkg, batched_strategies, densVars, testing_iterations,
                   model_params, param_grad, checkpoints>>

\* all_running_time[dp_rk * MP_GROUP.size() + mp_rk][accum_idx_in_one_dp_rk]
\* for every mp_rk (train.py 331-333)
all_running_time_cross_mp_RowStride(r, all_running_time, dp_rk, accum_idx_in_one_dp_rk) ==
    [k \in 1 .. GroupSize(MP_GROUP[r]) |->
        all_running_time[(k - 1) * GroupSize(DP_GROUP[r]) + dp_rk + 1]
                        [accum_idx_in_one_dp_rk + 1]]

all_running_time_cross_mp(r, all_running_time, dp_rk, accum_idx_in_one_dp_rk) ==
    [k \in 1 .. GroupSize(MP_GROUP[r]) |->
        all_running_time[dp_rk * GroupSize(MP_GROUP[r]) + (k - 1) + 1]
                        [accum_idx_in_one_dp_rk + 1]]

\* idx_in_one_batch = dp_rk * num_samples_per_dp_worker + accum_idx_in_one_dp_rk
\* (train.py 330), and the two loop variables it came from
idx_in_one_batch(dp_rk, accum_idx_in_one_dp_rk) ==
    dp_rk * num_samples_per_dp_worker + accum_idx_in_one_dp_rk

\* The positions of the batch that the loops of lines 328-329 reach
UpdatedIndices_OwnRow(r) ==
    {idx_in_one_batch(GroupRank(DP_GROUP[r], r), accum) :
        accum \in 0 .. (num_samples_per_dp_worker - 1)}

UpdatedIndices(r) ==
    {idx_in_one_batch(dp_rk, accum) :
        dp_rk \in 0 .. (GroupSize(DP_GROUP[r]) - 1),
        accum \in 0 .. (num_samples_per_dp_worker - 1)}

\* The indexing of lines 330-334 stays inside all_running_time and
\* batched_strategies
UpdateStatsInRange(r, all_running_time) ==
    \A dp_rk \in 0 .. (GroupSize(DP_GROUP[r]) - 1) :
       \A accum \in 0 .. (num_samples_per_dp_worker - 1) :
          /\ idx_in_one_batch(dp_rk, accum) + 1 \in DOMAIN batched_strategies[r]
          /\ \A mp_rk \in 0 .. (GroupSize(MP_GROUP[r]) - 1) :
                /\ dp_rk * GroupSize(MP_GROUP[r]) + mp_rk + 1 \in DOMAIN all_running_time
                /\ accum + 1 \in
                     DOMAIN all_running_time[dp_rk * GroupSize(MP_GROUP[r]) + mp_rk + 1]

\* batched_strategy_histories[idx_in_one_batch].finish_strategy() (train.py
\* 335) as the map of histories sees it, for the positions idx .. bsz of the
\* batch in the order of the loops: the history of the camera takes the
\* running times of a strategy that the loops have measured and finished
RECURSIVE FinishStrategies(_, _, _, _, _)
FinishStrategies(map, cams, before, after, idx) ==
    IF idx > Len(cams) THEN map
    ELSE FinishStrategies(
            IF before[idx].state = "started" /\ after[idx].state = "finished"
            THEN [map EXCEPT ![cams[idx]].records = Append(@, after[idx].stats)]
            ELSE map,
            cams, before, after, idx + 1)

\* train.py 328-337: every strategy of the batch receives its running times
\* (update_stats) and is closed (finish_strategy)
UpdateStatsApply(r) ==
    /\ pc[r] = "update_stats_apply"
    /\ Ready(r)
    /\ gathered' = [gathered EXCEPT ![r] = <<>>]
    /\ IF UpdateStatsInRange(r, gathered[r])
       THEN /\ batched_strategies' = [batched_strategies EXCEPT ![r] =
                  [idx \in DOMAIN @ |->
                     IF idx - 1 \in UpdatedIndices(r)
                     THEN LET dp_rk == (idx - 1) \div num_samples_per_dp_worker
                              accum == (idx - 1) % num_samples_per_dp_worker
                          IN  finish_strategy(update_stats(@[idx],
                                 all_running_time_cross_mp(r, gathered[r], dp_rk, accum)))
                     ELSE @[idx]]]
            /\ cameraId2StrategyHistory' = [cameraId2StrategyHistory EXCEPT ![r] =
                  FinishStrategies(@, BatchedCameras(iteration[r]),
                                   batched_strategies[r], batched_strategies'[r], 1)]
            /\ pc' = [pc EXCEPT ![r] = PhaseAfter("update_stats")]
       ELSE /\ pc' = [pc EXCEPT ![r] = "IndexError"]
            /\ UNCHANGED <<batched_strategies, cameraId2StrategyHistory>>
    /\ UNCHANGED <<confVars, libVars, losses_cpu, evaluation, disk_log,
                   topoVars, issued, wait, queue, iteration, micro_step,
                   phases, batched_screenspace_pkg, densVars, testing_iterations,
                   model_params, param_grad, checkpoints>>

\* train.py 344-348: the losses of the micro steps are all-gathered over the
\* data-parallel group
AllgatherLoss(r) ==
    /\ pc[r] = "allgather_loss"
    /\ Ready(r)
    /\ queue' = [queue EXCEPT ![r] =
          IF GroupSize(DP_GROUP[r]) > 1
          THEN <<Call("all_gather_into_tensor", "DP", 348, iteration[r],
                      batched_screenspace_pkg[r].losses)>>
          ELSE <<>>]
    /\ pc' = [pc EXCEPT ![r] = "update_losses"]
    /\ UNCHANGED <<confVars, libVars, outVars, topoVars, issued, wait, gathered, trainVars>>

\* losses.flatten() (train.py 349): the rows of the gathered tensor one after
\* the other
RECURSIVE flatten(_)
flatten(rows) == IF rows = <<>> THEN <<>> ELSE Head(rows) \o flatten(Tail(rows))

\* train.py 349-368: losses_cpu is the flattened gathered tensor, or the
\* worker's own losses when the data-parallel group has one member; then
\* update_losses and the log line
UpdateLosses(r) ==
    /\ pc[r] = "update_losses"
    /\ Ready(r)
    /\ losses_cpu' = [losses_cpu EXCEPT ![r] =
          IF GroupSize(DP_GROUP[r]) > 1
          THEN flatten(gathered[r])
          ELSE batched_screenspace_pkg[r].losses]
    /\ gathered' = [gathered EXCEPT ![r] = <<>>]
    /\ pc' = [pc EXCEPT ![r] = PhaseAfter("allgather_loss")]
    /\ UNCHANGED <<confVars, libVars, cameraId2StrategyHistory, evaluation, disk_log,
                   topoVars, issued, wait, queue, trainVars>>

\* ------------------------------------------------------------ training_report
\* No evaluation pass has run
NoEvaluation == <<>>

\* The while loop of train.py 479-480
RECURSIVE DropPassed(_, _)
DropPassed(tests, iter) ==
    IF Len(tests) > 0 /\ tests[1] < iter THEN DropPassed(Tail(tests), iter) ELSE tests

\* The camera counts of the two validation configs (train.py 485-486)
validation_configs ==
    <<NumTestCameras, Len(RangeList(0, NumTrainCameras, 10))>>

\* The mode of the histories of an evaluation pass (train.py 505)
EvaluationMode_Training == args.workloads_division_mode

EvaluationMode == "evaluation"

\* range(1, num_cameras + 1, args.dp_size) (train.py 496)
EvalBatchStarts(num_cameras) == RangeList(1, num_cameras + 1, args.dp_size)

\* eval_dataset.get_batched_cameras(args.dp_size) (train.py 501) in the batch
\* that starts at idx: the dataset hands out its cameras in turn, as
\* positions 1 .. num_cameras, and starts anew after the last one
EvalBatchedCameras(num_cameras, idx) ==
    [j \in 1 .. args.dp_size |-> ((idx - 1 + j - 1) % num_cameras) + 1]

\* idx + DP_GROUP.rank() < num_cameras + 1 (train.py 525)
EvalGuard(r, num_cameras, idx) ==
    idx + GroupRank(DP_GROUP[r], r) < num_cameras + 1

\* The cameras whose loss worker r adds to l1_test (train.py 502, 525-526)
EvalContributions(r, num_cameras) ==
    LET starts == EvalBatchStarts(num_cameras)
    IN  [k \in {k \in DOMAIN starts : EvalGuard(r, num_cameras, starts[k])} |->
            EvalBatchedCameras(num_cameras, starts[k])[GroupRank(DP_GROUP[r], r) + 1]]

\* l1_loss(image, gt_image).mean() of a camera (train.py 526): a value that
\* names the camera, so that a sum tells which cameras are in it and how often
RECURSIVE L1Of(_)
L1Of(camera) == IF camera <= 1 THEN 1 ELSE 10 * L1Of(camera - 1)

\* The map of the histories of an evaluation pass after its batches (train.py
\* 495-506)
RECURSIVE EvalHistories(_, _, _)
EvalHistories(map, num_cameras, starts) ==
    IF starts = <<>> THEN map
    ELSE EvalHistories(
            StartStrategies(map, EvalBatchedCameras(num_cameras, Head(starts)),
                            EvaluationMode),
            num_cameras, Tail(starts))

\* What worker r holds at the end of the loop of one validation config
\* (train.py 490-527): its own map of histories, the cameras it has added to
\* the sum, and the sum
EvalPass(r, num_cameras) ==
    LET added == EvalContributions(r, num_cameras)
    IN  [iteration |-> iteration[r],
         num_cameras |-> num_cameras,
         cameraId2StrategyHistory |->
             EvalHistories(<<>>, num_cameras, EvalBatchStarts(num_cameras)),
         added |-> added,
         l1_test |-> SumOver([k \in DOMAIN added |-> L1Of(added[k])], DOMAIN added)]

\* The passes of the validation configs that have cameras (train.py 488-489)
EvalPasses(r) ==
    (IF validation_configs[1] > 0 THEN <<EvalPass(r, validation_configs[1])>> ELSE <<>>)
       \o (IF validation_configs[2] > 0 THEN <<EvalPass(r, validation_configs[2])>> ELSE <<>>)

\* The collectives of one validation config (train.py 489-530): one
\* model-parallel all-reduce for each evaluation batch, then the two
\* data-parallel all-reduces of the sums.  The all-reduce of l1_test carries
\* the place of the pass among the passes of the report and the local sum.
EvalCollectives(r, num_cameras, pass) ==
    IF num_cameras > 0
    THEN (IF GroupSize(MP_GROUP[r]) > 1
          THEN [k \in DOMAIN RangeList(1, num_cameras + 1, args.dp_size) |->
                   Call("all_reduce", "MP", 521, iteration[r], <<>>)]
          ELSE <<>>)
         \o (IF GroupSize(DP_GROUP[r]) > 1
             THEN <<Call("all_reduce", "DP", 529, iteration[r],
                         <<pass, EvalPass(r, num_cameras).l1_test>>),
                    Call("all_reduce", "DP", 530, iteration[r], <<>>)>>
             ELSE <<>>)
    ELSE <<>>

\* training_report (train.py 371, 476-536)
TrainingReport(r) ==
    /\ pc[r] = "training_report"
    /\ Ready(r)
    /\ LET tests == DropPassed(testing_iterations[r], iteration[r])
       IN  IF Len(tests) > 0
                /\ check_update_at_this_iter(iteration[r], args.bsz, tests[1], 0)
           THEN /\ testing_iterations' = [testing_iterations EXCEPT ![r] = Tail(tests)]
                /\ phases' = [phases EXCEPT ![r] = Append(@, "evaluation")]
                /\ evaluation' = [evaluation EXCEPT ![r] = EvalPasses(r)]
                /\ queue' = [queue EXCEPT ![r] =
                       EvalCollectives(r, validation_configs[1], 1)
                          \o EvalCollectives(r, validation_configs[2],
                                             IF validation_configs[1] > 0 THEN 2 ELSE 1)]
           ELSE /\ testing_iterations' = [testing_iterations EXCEPT ![r] = tests]
                /\ UNCHANGED <<queue, phases, evaluation>>
    /\ pc' = [pc EXCEPT ![r] = PhaseAfter("training_report")]
    /\ UNCHANGED <<confVars, libVars, cameraId2StrategyHistory, losses_cpu, disk_log,
                   topoVars, issued, wait, gathered, iteration, micro_step,
                   batched_screenspace_pkg, batched_strategies, densVars,
                   model_params, param_grad, checkpoints>>

\* ------------------------------------------------------------ densification
\* Memory is counted in blocks of 512 bytes, the granularity of the CUDA
\* allocator; 2097152 blocks are 1 GiB.  Dividing by 1024^3 is exact in binary
\* floating point, so rounding a usage in GiB to float32 is rounding its count
\* of blocks.
MemoryThreshold == 36700160     \* 17.5 GiB (train.py 103)

\* torch.cuda.memory_allocated() after a densification (train.py 95):
\* 17.0 GiB, 17.5 GiB, 17.5 GiB + 512 B, 18.0 GiB
MemoryUsages == {35651584, 36700160, 36700161, 37748736}

\* not args.disable_auto_densification and iteration <= args.densify_until_iter
\* (train.py 60)
DensificationEnabled_IgnoreLatch(r) ==
    iteration[r] <= args.densify_until_iter

\* the latch stops the densification events and leaves the opacity reset
DensificationEnabled_EventsOnly(r) ==
    /\ iteration[r] <= args.densify_until_iter
    /\ \/ ~disable_auto_densification[r]
       \/ ~(/\ iteration[r] > args.densify_from_iter
            /\ check_update_at_this_iter(iteration[r], args.bsz,
                                         args.densification_interval, 0))

DensificationEnabled(r) ==
    /\ ~disable_auto_densification[r]
    /\ iteration[r] <= args.densify_until_iter

\* train.py 75
DensifyDue(r) ==
    /\ iteration[r] > args.densify_from_iter
    /\ check_update_at_this_iter(iteration[r], args.bsz, args.densification_interval, 0)

\* train.py 85
RedistributeDue_OneBased(r) ==
    /\ args.redistribute_gaussians_mode # "no_redistribute"
    /\ (DENSIFY_ITER[r] + 1) % args.redistribute_gaussians_frequency = 0

RedistributeDue(r) ==
    /\ args.redistribute_gaussians_mode # "no_redistribute"
    /\ DENSIFY_ITER[r] % args.redistribute_gaussians_frequency = 0

\* The steps of one densification event up to the collective (train.py
\* 79-102), in the order of the statements
DensificationEvent_GatherFirst(r) ==
    <<"allgather_memory_usage", "densify_and_prune">>
       \o (IF RedistributeDue(r) THEN <<"redistribute_gaussians">> ELSE <<>>)

DensificationEvent(r) ==
    <<"densify_and_prune">>
       \o (IF RedistributeDue(r) THEN <<"redistribute_gaussians">> ELSE <<>>)
       \o <<"allgather_memory_usage">>

\* train.py 110-115
ResetOpacity(r) ==
    IF check_update_at_this_iter(iteration[r], args.bsz, args.opacity_reset_interval, 0)
    THEN <<"reset_opacity">>
    ELSE <<>>

\* max([a[0] for a in memory_usage_list]) (train.py 103)
MaxMemoryUsage_FirstWorker(memory_usage_list) == memory_usage_list[1][1]

MaxMemoryUsage(memory_usage_list) ==
    CHOOSE m \in {memory_usage_list[i][1] : i \in DOMAIN memory_usage_list} :
        \A i \in DOMAIN memory_usage_list : memory_usage_list[i][1] <= m

\* densification (train.py 374, 49-102), up to the all-gather of the memory
\* usage of a densification event; the assertion of line 76 stops a run with
\* stop_update_param at its first event
Densification(r) ==
    /\ pc[r] = "densification"
    /\ Ready(r)
    /\ IF DensificationEnabled(r)
       THEN IF DensifyDue(r) /\ args.stop_update_param
            THEN /\ pc' = [pc EXCEPT ![r] = "AssertionError_stop_update_param"]
                 /\ UNCHANGED <<queue, phases>>
            ELSE IF DensifyDue(r)
            THEN /\ phases' = [phases EXCEPT ![r] = @ \o DensificationEvent(r)]
                 /\ \E memory_usage \in MemoryUsages :
                       queue' = [queue EXCEPT ![r] =
                           <<Call("all_gather_into_tensor", "GLOBAL", 102, iteration[r],
                                  <<memory_usage>>)>>]
                 /\ pc' = [pc EXCEPT ![r] = "memory_check"]
            ELSE /\ phases' = [phases EXCEPT ![r] = @ \o ResetOpacity(r)]
                 /\ pc' = [pc EXCEPT ![r] = PhaseAfter("densification")]
                 /\ UNCHANGED queue
       ELSE /\ pc' = [pc EXCEPT ![r] = PhaseAfter("densification")]
            /\ UNCHANGED <<queue, phases>>
    /\ UNCHANGED <<confVars, libVars, outVars, topoVars, issued, wait, gathered, iteration, micro_step,
                   batched_screenspace_pkg, batched_strategies, densVars, testing_iterations,
                   model_params, param_grad, checkpoints>>

\* train.py 103-117: the latch, inc_densify_iter and the opacity reset
MemoryCheck(r) ==
    /\ pc[r] = "memory_check"
    /\ Ready(r)
    /\ disable_auto_densification' = [disable_auto_densification EXCEPT ![r] =
          IF MaxMemoryUsage(gathered[r]) > MemoryThreshold THEN TRUE ELSE @]
    /\ DENSIFY_ITER' = [DENSIFY_ITER EXCEPT ![r] = @ + 1]
    /\ phases' = [phases EXCEPT ![r] = Append(@, "memory_check") \o ResetOpacity(r)]
    /\ gathered' = [gathered EXCEPT ![r] = <<>>]
    /\ pc' = [pc EXCEPT ![r] = PhaseAfter("densification")]
    /\ UNCHANGED <<confVars, libVars, outVars, topoVars, issued, wait, queue, iteration, micro_step,
                   batched_screenspace_pkg, batched_strategies, testing_iterations,
                   model_params, param_grad, checkpoints>>

\* ------------------------------------------------------------ save, step, clean up
\* any(iteration <= i < iteration + bsz for i in iterations) (train.py 382, 395)
WindowHits_AtStart(r, iterations) == iteration[r] \in iterations

WindowHits(r, iterations) ==
    \E i \in iterations : iteration[r] <= i /\ i < iteration[r] + args.bsz

\* The barrier of the checkpoint (train.py 400-404): both branches make it
CheckpointBarrier_RankZeroOnly(r) ==
    IF GroupRank(DEFAULT_GROUP[r], r) = 0
    THEN <<Call("barrier", "GLOBAL", 402, iteration[r], <<>>)>>
    ELSE <<>>

CheckpointBarrier(r) ==
    IF GroupRank(DEFAULT_GROUP[r], r) = 0
    THEN <<Call("barrier", "GLOBAL", 402, iteration[r], <<>>)>>
    ELSE <<Call("barrier", "GLOBAL", 404, iteration[r], <<>>)>>

\* One entry of disk_log: what was created, and the iteration in its name
DiskEntry(op, iter) == [op |-> op, iteration |-> iter]

\* scene.save(iteration) (train.py 382-386)
SceneSave(r) ==
    IF WindowHits(r, args.save_iterations)
    THEN <<DiskEntry("scene.save", iteration[r])>>
    ELSE <<>>

\* os.makedirs(save_folder, exist_ok=True) by the worker of rank 0 (train.py
\* 399-401)
Makedirs_Never(r) == <<>>

Makedirs(r) ==
    IF WindowHits(r, args.checkpoint_iterations) /\ GroupRank(DEFAULT_GROUP[r], r) = 0
    THEN <<DiskEntry("os.makedirs", iteration[r])>>
    ELSE <<>>

\* train.py 382-404: save the entities, then the folder and the barrier of a
\* checkpoint
SaveGaussians(r) ==
    /\ pc[r] = "save"
    /\ Ready(r)
    /\ disk_log' = [disk_log EXCEPT ![r] = @ \o SceneSave(r) \o Makedirs(r)]
    /\ IF WindowHits(r, args.checkpoint_iterations)
       THEN /\ queue' = [queue EXCEPT ![r] = CheckpointBarrier(r)]
            /\ pc' = [pc EXCEPT ![r] = "checkpoint_save"]
       ELSE /\ pc' = [pc EXCEPT ![r] = PhaseAfter("save")]
            /\ UNCHANGED queue
    /\ UNCHANGED <<confVars, libVars, cameraId2StrategyHistory, losses_cpu, evaluation,
                   topoVars, issued, wait, gathered, trainVars>>

\* The folder save_folder of the checkpoint of worker r exists: some worker
\* has created it, or an earlier run has left files in it
FolderExists(r) ==
    \/ \E m \in Ranks : \E k \in DOMAIN disk_log[m] :
          disk_log[m][k] = DiskEntry("os.makedirs", iteration[r])
    \/ \E f \in checkpoints : f.folder = iteration[r]

\* The file torch.save writes (train.py 399, 405): chkpnt<rank>.pth in the
\* folder named after the iteration, holding (gaussians.capture(), iteration)
CheckpointFile(r) ==
    [folder |-> iteration[r], rank |-> GroupRank(DEFAULT_GROUP[r], r),
     model_params |-> model_params[r], iteration |-> iteration[r]]

\* train.py 405-406: torch.save of the worker's state; it raises when the
\* folder does not exist
CheckpointSave(r) ==
    /\ pc[r] = "checkpoint_save"
    /\ Ready(r)
    /\ IF FolderExists(r)
       THEN /\ checkpoints' = {f \in checkpoints :
                                  ~(f.folder = CheckpointFile(r).folder
                                       /\ f.rank = CheckpointFile(r).rank)}
                                  \cup {CheckpointFile(r)}
            /\ disk_log' = [disk_log EXCEPT ![r] =
                  Append(@, DiskEntry("torch.save", iteration[r]))]
            /\ pc' = [pc EXCEPT ![r] = PhaseAfter("save")]
       ELSE /\ pc' = [pc EXCEPT ![r] = "RuntimeError_torch_save"]
            /\ UNCHANGED <<checkpoints, disk_log>>
    /\ UNCHANGED <<confVars, libVars, cameraId2StrategyHistory, losses_cpu, evaluation,
                   topoVars, commVars, loopVars, densVars,
                   testing_iterations, model_params, param_grad>>

\* iteration < opt_args.iterations (train.py 409)
OptimizerStepDue_UpToLast(r) == iteration[r] <= args.iterations

OptimizerStepDue(r) == iteration[r] < args.iterations

\* train.py 409-455: gaussians.optimizer.step() unless args.stop_update_param
\* (451-452), then gaussians.optimizer.zero_grad(set_to_none = True) (453)
OptimizerStep(r) ==
    /\ pc[r] = "optimizer_step"
    /\ Ready(r)
    /\ phases' = [phases EXCEPT ![r] =
          IF OptimizerStepDue(r) THEN Append(@, "optimizer_step") ELSE @]
    /\ model_params' = [model_params EXCEPT ![r] =
          IF OptimizerStepDue(r) /\ ~args.stop_update_param
          THEN [@ EXCEPT !.updates = @ \cup {iteration[r]}]
          ELSE @]
    /\ param_grad' = [param_grad EXCEPT ![r] = IF OptimizerStepDue(r) THEN {} ELSE @]
    /\ pc' = [pc EXCEPT ![r] = PhaseAfter("optimizer_step")]
    /\ UNCHANGED <<confVars, libVars, outVars, topoVars, commVars, iteration, micro_step,
                   batched_screenspace_pkg, batched_strategies, densVars, testing_iterations,
                   checkpoints>>

\* train.py 457-470 and the step of the range of line 176: the iteration is
\* over, the log of its phases starts anew
FinishIteration(r) ==
    /\ pc[r] = "cleanup"
    /\ Ready(r)
    /\ iteration' = [iteration EXCEPT ![r] = @ + args.bsz]
    /\ phases' = [phases EXCEPT ![r] = <<>>]
    /\ pc' = [pc EXCEPT ![r] = "loop_head"]
    /\ UNCHANGED <<confVars, libVars, outVars, topoVars, commVars, micro_step,
                   batched_screenspace_pkg, batched_strategies, densVars, testing_iterations,
                   model_params, param_grad, checkpoints>>

\* ------------------------------------------------------------ strategy history
\* StrategyHistory and its division policies are not part of the sources at
\* hand; they are modelled after the specification of the component.
NumTiles == 4          \* tiles of the image of the view
WindowSize == 2        \* measured records that the history keeps
MaxStrategies == 2     \* start_strategy calls explored on one history
Times == {0, 10, 20}   \* running times a worker can report
Epsilon == 1           \* the smallest cost a tile is given

\* The history of a view before its first strategy: no measured record, no
\* estimate, no active strategy.  mode is the workloads_division_mode it was
\* created with, mp the number of workers the image is divided among.
NoStrategy == [state |-> "none", stats |-> <<>>, division |-> <<>>]

NewStrategyHistory(mode, mp) ==
    [mode |-> mode, mp |-> mp, window |-> <<>>, estimate |-> <<>>,
     active |-> NoStrategy, last_call |-> "get_division_strategy_history", started |-> 0]

EmptyStrategyHistory == NewStrategyHistory("even", 1)

\* The even division: tile t goes to worker ((t - 1) * mp) div NumTiles, so
\* the workers get contiguous shares that differ by at most one tile
EvenDivision(mp) == [t \in 1 .. NumTiles |-> ((t - 1) * mp) \div NumTiles]

\* The tiles of worker j in a division, and the load a worker carries when
\* the tiles cost what cost says
TilesOf(division, j) == {t \in DOMAIN division : division[t] = j}

LoadOf(division, cost, j) ==
    SumOver(cost, {t \in DOMAIN division : division[t] = j})

\* The tiles by descending cost, the smaller tile first among equals
RECURSIVE ByDescendingCost(_, _)
ByDescendingCost(cost, tiles) ==
    IF tiles = {} THEN <<>>
    ELSE LET t == CHOOSE t \in tiles :
                     \A u \in tiles : cost[t] > cost[u] \/ (cost[t] = cost[u] /\ t <= u)
         IN  <<t>> \o ByDescendingCost(cost, tiles \ {t})

\* Greedy longest-processing-time: each tile in turn goes to the worker with
\* the least load so far, the lowest rank among equals.  Tiles not yet placed
\* carry the mark mp.
RECURSIVE LPT(_, _, _, _)
LPT(order, cost, mp, division) ==
    IF order = <<>> THEN division
    ELSE LET j == CHOOSE j \in 0 .. (mp - 1) :
                     \A i \in 0 .. (mp - 1) :
                        \/ LoadOf(division, cost, j) < LoadOf(division, cost, i)
                        \/ (LoadOf(division, cost, j) = LoadOf(division, cost, i) /\ j <= i)
         IN  LPT(Tail(order), cost, mp, [division EXCEPT ![Head(order)] = j])

\* The history-based division: the estimated costs, a zero clamped to
\* Epsilon, placed by LPT.  It needs an estimate: without one the mean over
\* the measured records divides by zero.
HistoryBasedDivision(history) ==
    IF history.estimate = <<>>
    THEN <<"ZeroDivisionError">>
    ELSE LET cost == [t \in 1 .. NumTiles |->
                         IF history.estimate[t] < Epsilon THEN Epsilon
                         ELSE history.estimate[t]]
         IN  LPT(ByDescendingCost(cost, 1 .. NumTiles), cost, history.mp,
                 [t \in 1 .. NumTiles |-> history.mp])

\* StrategyHistory.start_strategy(): the division of the new strategy.  A
\* history without a finished strategy gives the even division in every mode.
start_strategy_NoFallback(history) ==
    IF history.mode = "history-based"
    THEN HistoryBasedDivision(history)
    ELSE EvenDivision(history.mp)

start_strategy(history) ==
    IF history.mode = "history-based" /\ history.window # <<>>
    THEN HistoryBasedDivision(history)
    ELSE EvenDivision(history.mp)

\* The cost of each tile that a measured strategy shows: the time of the
\* worker that had the tile, shared among its tiles (in twelfths of a unit)
MeasuredCost(strategy) ==
    [t \in 1 .. NumTiles |->
        (12 * strategy.stats[strategy.division[t] + 1])
           \div Cardinality(TilesOf(strategy.division, strategy.division[t]))]

\* new = alpha * measured + (1 - alpha) * old with alpha = 0.2; the first
\* measurement is taken as it is
Smoothed(old, measured) ==
    IF old = <<>> THEN measured
    ELSE [t \in 1 .. NumTiles |-> (measured[t] + 4 * old[t]) \div 5]

\* The last WindowSize records
Bounded(window) ==
    IF Len(window) > WindowSize THEN SubSeq(window, Len(window) - WindowSize + 1, Len(window))
    ELSE window

\* StrategyHistory.finish_strategy(): a measured strategy is folded into the
\* window and the estimate; anything else leaves the history as it is
FoldActive_AnyState(history) ==
    [history EXCEPT !.window = Bounded(Append(@, history.active.stats)),
                    !.active = [@ EXCEPT !.state = "finished"]]

FoldActive(history) ==
    LET closed == finish_strategy(history.active)
    IN  IF closed # history.active
        THEN [history EXCEPT !.window = Bounded(Append(@, closed.stats)),
                             !.estimate = Smoothed(@, MeasuredCost(closed)),
                             !.active = closed]
        ELSE history

\* One call of start_strategy on the history
StartStrategy ==
    /\ strategy_history.started < MaxStrategies
    /\ strategy_history' =
          [strategy_history EXCEPT
              !.active = [state |-> IF start_strategy(strategy_history) = <<"ZeroDivisionError">>
                                    THEN "raised" ELSE "started",
                          stats |-> <<>>,
                          division |-> start_strategy(strategy_history)],
              !.last_call = "start_strategy",
              !.started = @ + 1]
    /\ UNCHANGED <<confVars, gaussians, cameras, call_record, outVars, topoVars, pc, commVars, trainVars>>

\* One call of update_stats on the active strategy, with a time for each
\* worker
UpdateStats ==
    /\ strategy_history.active.state \in {"started", "measured", "finished"}
    /\ \E times \in [1 .. strategy_history.mp -> Times] :
          strategy_history' =
             [strategy_history EXCEPT !.active = update_stats(@, times),
                                      !.last_call = "update_stats"]
    /\ UNCHANGED <<confVars, gaussians, cameras, call_record, outVars, topoVars, pc, commVars, trainVars>>

\* One call of finish_strategy on the history
FinishStrategy ==
    /\ strategy_history.active.state \in {"started", "measured", "finished"}
    /\ strategy_history' = [FoldActive(strategy_history) EXCEPT
                               !.last_call = "finish_strategy"]
    /\ UNCHANGED <<confVars, gaussians, cameras, call_record, outVars, topoVars, pc, commVars, trainVars>>

\* ------------------------------------------------------------ entities
\* The persistent entities (gaussians) and the redistribution of their
\* ownership.  An entity is a stable identifier; each worker stores the set of
\* entities it owns, with their optimizer state attached to them.
MaxEntities == 5       \* identifiers ever handed out in one run

\* The storage of a run that keeps no entities
NoGaussians ==
    [mp |-> 0, entities |-> {}, owned |-> <<>>, next_id |-> 1,
     last_call |-> "none", before |-> <<>>, transfers |-> 0]

\* Workers of the storage, by their rank
WorkersOf(mp) == 0 .. (mp - 1)

\* The storage after construction: n initial entities, dealt to the workers
\* in contiguous shards of the target size
InitialShard(n, mp, r) ==
    {e \in 1 .. n :
        LET q   == n \div mp
            rem == n % mp
            lo  == r * q + (IF r < rem THEN r ELSE rem)
            hi  == lo + q + (IF r < rem THEN 1 ELSE 0)
        IN  lo < e /\ e <= hi}

NewGaussians(n, mp) ==
    [mp |-> mp, entities |-> 1 .. n,
     owned |-> [r \in WorkersOf(mp) |-> InitialShard(n, mp, r)],
     next_id |-> n + 1, last_call |-> "none",
     before |-> [r \in WorkersOf(mp) |-> InitialShard(n, mp, r)],
     transfers |-> 0]

\* Number of entities a worker holds, and the number all workers hold
CountOf(owned, r) == Cardinality(owned[r])

TotalCount(owned) ==
    SumOver([r \in DOMAIN owned |-> Cardinality(owned[r])], DOMAIN owned)

\* target count per worker = total / worker count, the remainder going to the
\* first workers
TargetCount(total, mp, r) ==
    (total \div mp) + (IF r < total % mp THEN 1 ELSE 0)

\* Number of entities a worker holds above its target (0 when not overloaded)
SurplusCount_AboveFloor(owned, r) ==
    LET above == CountOf(owned, r) - (TotalCount(owned) \div Cardinality(DOMAIN owned))
    IN  IF above > 0 THEN above ELSE 0

SurplusCount(owned, r) ==
    LET above == CountOf(owned, r)
                    - TargetCount(TotalCount(owned), Cardinality(DOMAIN owned), r)
    IN  IF above > 0 THEN above ELSE 0

\* Number of entities a worker lacks to reach its target (0 when not
\* underloaded)
DeficitCount(owned, r) ==
    LET below == TargetCount(TotalCount(owned), Cardinality(DOMAIN owned), r)
                    - CountOf(owned, r)
    IN  IF below > 0 THEN below ELSE 0

\* The entities an overloaded worker gives away: as many as it holds above
\* target, chosen by identifier (the highest ones)
Selected(owned, r) ==
    {e \in owned[r] :
        Cardinality({x \in owned[r] : x > e}) < SurplusCount(owned, r)}

\* Everything that is transferred in one redistribution
Transferred(owned) == UNION {Selected(owned, r) : r \in DOMAIN owned}

\* The entities an underloaded worker receives: the transferred entities are
\* handed out in identifier order to the underloaded workers in rank order
Received(owned, r) ==
    LET pool   == Transferred(owned)
        offset == SumOver([m \in DOMAIN owned |->
                              IF m < r THEN DeficitCount(owned, m) ELSE 0],
                          DOMAIN owned)
    IN  {e \in pool :
            LET position == Cardinality({x \in pool : x <= e})
            IN  offset < position /\ position <= offset + DeficitCount(owned, r)}

\* What a worker still holds after it has sent its selected entities
Kept_AfterSend(owned, r) == owned[r]

Kept(owned, r) == owned[r] \ Selected(owned, r)

\* The ownership after one redistribution
redistribute_gaussians(owned) ==
    [r \in DOMAIN owned |-> Kept(owned, r) \cup Received(owned, r)]

\* One point-count-changing event on one worker: it prunes some of its
\* entities and creates new ones, which it owns
DensifyAndPrune ==
    /\ gaussians.mp > 0
    /\ \E r \in WorkersOf(gaussians.mp) :
       \E pruned \in SUBSET gaussians.owned[r] :
       \E grown \in 0 .. (MaxEntities + 1 - gaussians.next_id) :
          LET created == gaussians.next_id .. (gaussians.next_id + grown - 1)
          IN  /\ pruned \cup created # {}
              /\ gaussians' =
                    [gaussians EXCEPT
                        !.entities = (@ \ pruned) \cup created,
                        !.owned[r] = (@ \ pruned) \cup created,
                        !.next_id = @ + grown,
                        !.last_call = "densify_and_prune",
                        !.before = gaussians.owned,
                        !.transfers = 0]
    /\ UNCHANGED <<confVars, strategy_history, cameras, call_record, outVars, topoVars, pc, commVars, trainVars>>

\* One call of redistribute_gaussians by all workers
RedistributeGaussians ==
    /\ gaussians.mp > 0
    /\ gaussians' =
          [gaussians EXCEPT
              !.owned = redistribute_gaussians(gaussians.owned),
              !.last_call = "redistribute_gaussians",
              !.before = gaussians.owned,
              !.transfers = Cardinality(Transferred(gaussians.owned))]
    /\ UNCHANGED <<confVars, strategy_history, cameras, call_record, outVars, topoVars, pc, commVars, trainVars>>

\* ------------------------------------------------------------ calls of single functions
MaxCallIteration == 8  \* largest iteration given to a function called on its own
MaxCallBsz == 5        \* largest bsz given to it
MaxInterval == 3       \* largest interval given to it

\* One call of check_update_at_this_iter with the arguments of the record
CallCheckUpdate ==
    /\ call_record.fn = "check_update_at_this_iter"
    /\ call_record.out = <<>>
    /\ call_record' = [call_record EXCEPT !.out =
          <<check_update_at_this_iter(call_record.in[1], call_record.in[2],
                                      call_record.in[3], call_record.in[4])>>]
    /\ UNCHANGED <<confVars, strategy_history, gaussians, cameras, outVars,
                   topoVars, pc, commVars, trainVars>>

\* The values of the loop variable of train.py 176 in a run from iteration 1
LoopIterations(iterations, bsz) == {i \in 1 .. iterations : (i - 1) % bsz = 0}

\* The conditions of train.py 60 and 75 for the batch that starts at iter,
\* while args.disable_auto_densification is False
DensifyAndPruneAt(iter, bsz, densify_from_iter, densify_until_iter, densification_interval) ==
    /\ iter <= densify_until_iter
    /\ iter > densify_from_iter
    /\ check_update_at_this_iter(iter, bsz, densification_interval, 0)

\* The number of densify_and_prune events of a full run from iteration 1 in
\* which the latch is never set
NumDensifications(iterations, bsz, densify_from_iter, densify_until_iter, densification_interval) ==
    Cardinality({i \in LoopIterations(iterations, bsz) :
                    DensifyAndPruneAt(i, bsz, densify_from_iter, densify_until_iter,
                                      densification_interval)})

\* The densify_and_prune events of one full run are counted
CallNumDensifications ==
    /\ call_record.fn = "densification"
    /\ call_record.out = <<>>
    /\ call_record' = [call_record EXCEPT !.out =
          <<NumDensifications(call_record.in[1], call_record.in[2], call_record.in[3],
                              call_record.in[4], call_record.in[5])>>]
    /\ UNCHANGED <<confVars, strategy_history, gaussians, cameras, outVars,
                   topoVars, pc, commVars, trainVars>>

\* ------------------------------------------------------------ cameras
MaxCameras == 2        \* Camera objects constructed in one run

\* The strings given as data_device: the default, devices by index, the cpu,
\* and strings that name no device
DeviceStrings == {"cuda", "cuda:0", "cuda:1", "cpu", "gpu", ""}

\* torch.device(string): the device as its type and index, or the error it
\* raises for a string that names no device
torch_device(string) ==
    CASE string = "cuda"   -> [type |-> "cuda", index |-> "None"]
      [] string = "cuda:0" -> [type |-> "cuda", index |-> "0"]
      [] string = "cuda:1" -> [type |-> "cuda", index |-> "1"]
      [] string = "cpu"    -> [type |-> "cpu", index |-> "None"]
      [] OTHER             -> [type |-> "RuntimeError", index |-> "None"]

Raises(device) == device.type = "RuntimeError"

\* Camera.__init__ (cameras.py 35-45): what the try statement leaves in
\* self.data_device, whether the warning was printed, and the exception that
\* leaves the constructor, if any
Camera_NoExcept(lazy_load_image, data_device) ==
    LET device == IF lazy_load_image THEN torch_device("cpu")
                  ELSE torch_device(data_device)
    IN  [data_device |-> device, warning |-> FALSE,
         raised |-> IF Raises(device) THEN "RuntimeError" ELSE "none"]

Camera(lazy_load_image, data_device) ==
    LET device == IF lazy_load_image THEN torch_device("cpu")
                  ELSE torch_device(data_device)
    IN  IF Raises(device)
        THEN [data_device |-> torch_device("cuda"), warning |-> TRUE,
              raised |-> IF Raises(torch_device("cuda")) THEN "RuntimeError" ELSE "none"]
        ELSE [data_device |-> device, warning |-> FALSE, raised |-> "none"]

\* One Camera is constructed with some data_device; an exception that leaves
\* the constructor ends the loading of the cameras
CameraInit ==
    /\ Len(cameras) < MaxCameras
    /\ \A k \in DOMAIN cameras : cameras[k].camera.raised = "none"
    /\ \E data_device \in DeviceStrings :
          cameras' = Append(cameras,
                            [requested |-> data_device,
                             camera |-> Camera(args.lazy_load_image, data_device)])
    /\ UNCHANGED <<confVars, strategy_history, gaussians, call_record, outVars,
                   topoVars, pc, commVars, trainVars>>

\* ------------------------------------------------------------ configurations
MaxIterations == 5     \* opt_args.iterations

DefaultArgs ==
    [dp_size |-> 1, bsz |-> 1, iterations |-> MaxIterations,
     more_sync |-> FALSE, zhx_python_time |-> FALSE, log_interval |-> 2,
     force_python_timer_iterations |-> {},
     gaussians_distribution |-> TRUE, adjust_strategy_warmp_iterations |-> 2,
     densify_from_iter |-> 1, densify_until_iter |-> 4, densification_interval |-> 2,
     opacity_reset_interval |-> 3,
     redistribute_gaussians_mode |-> "random_redistribute",
     redistribute_gaussians_frequency |-> 2,
     test_iterations |-> <<3>>, save_iterations |-> {5}, checkpoint_iterations |-> {4},
     start_checkpoint |-> NoCheckpoint,
     workloads_division_mode |-> "history-based",
     lazy_load_image |-> FALSE, stop_update_param |-> FALSE]

\* The gradient that loss.backward() leaves on the mean2D tensors of worker r
\* in the training runs: rank 0 touched nothing
DefaultBackwardGrad == [r \in Ranks |-> r]

\* No Camera constructed, no function of general_utils called on its own
NoCallRecord == [fn |-> "none", in |-> <<>>, out |-> <<>>]

InitCalls ==
    /\ cameras = <<>>
    /\ call_record = NoCallRecord

\* No checkpoint on disk, the components outside training() not in use
InitDisk ==
    /\ checkpoints = {}
    /\ strategy_history = EmptyStrategyHistory
    /\ gaussians = NoGaussians
    /\ InitCalls

\* The state of every worker when its process starts.
InitWorkers ==
    /\ mp_size = [r \in Ranks |-> 0]
    /\ DP_GROUP = [r \in Ranks |-> NoGroup]
    /\ MP_GROUP = [r \in Ranks |-> NoGroup]
    /\ DEFAULT_GROUP = [r \in Ranks |-> NoGroup]
    /\ IN_NODE_GROUP = [r \in Ranks |-> NoGroup]
    /\ new_groups = [r \in Ranks |-> <<>>]
    /\ pc = [r \in Ranks |-> "init_distributed"]
    /\ issued = [r \in Ranks |-> <<>>]
    /\ wait = [r \in Ranks |-> NoCall]
    /\ queue = [r \in Ranks |-> <<>>]
    /\ gathered = [r \in Ranks |-> <<>>]
    /\ iteration = [r \in Ranks |-> 0]
    /\ micro_step = [r \in Ranks |-> 0]
    /\ phases = [r \in Ranks |-> <<>>]
    /\ batched_screenspace_pkg = [r \in Ranks |-> EmptyPkg]
    /\ disable_auto_densification = [r \in Ranks |-> FALSE]
    /\ DENSIFY_ITER = [r \in Ranks |-> 0]
    /\ testing_iterations = [r \in Ranks |-> args.test_iterations]
    /\ batched_strategies = [r \in Ranks |-> <<>>]
    /\ model_params = [r \in Ranks |-> FreshModelParams(r, WORLD_SIZE)]
    /\ param_grad = [r \in Ranks |-> {}]
    /\ cameraId2StrategyHistory = [r \in Ranks |-> <<>>]
    /\ losses_cpu = [r \in Ranks |-> <<>>]
    /\ evaluation = [r \in Ranks |-> NoEvaluation]
    /\ disk_log = [r \in Ranks |-> <<>>]

\* Start-up: any world size, dp_size, device count, batch size.
InitMain ==
    /\ WORLD_SIZE \in 1 .. MaxWorld
    /\ device_count \in 1 .. MaxGpus
    /\ args \in {[DefaultArgs EXCEPT !.dp_size = d, !.bsz = b, !.more_sync = m] :
                    d \in 1 .. MaxWorld, b \in 1 .. MaxBsz, m \in BOOLEAN}
    /\ backward_grad = DefaultBackwardGrad
    /\ InitDisk
    /\ InitWorkers

NextMain ==
    \/ \E r \in Ranks : InitProcessGroup(r)
    \/ \E r \in Ranks : CreateParallelGroups(r)
    \/ \E r \in Ranks : CreateInNodeGroups(r)
    \/ \E r \in Ranks : InitArgs(r)
    \/ \E r \in Ranks : CreateLogFolder(r)
    \/ \E r \in Ranks : IssueQueued(r)
    \/ \E r \in Ranks : CollectiveComplete(r)
    \/ \E r \in Ranks : TrainingSetup(r)
    \/ \E r \in Ranks : LoopHead(r)
    \/ \E r \in Ranks : PrepareStrategies(r)
    \/ \E r \in Ranks : MicroBatchSetup(r)

\* __main__ from process start to the first micro step of training()
SpecMain == InitMain /\ [][NextMain]_vars

\* ------------------------------------------------------------ training()
MaxTrainWorld == 2     \* WORLD_SIZE of the training runs

\* The state in which __main__ calls training(): init_distributed has
\* returned, the start-up barrier of a distributed run is complete.  All
\* workers are on one node.
MainReturned ==
    /\ mp_size = [r \in Ranks |-> IF WORLD_SIZE > 1 THEN WORLD_SIZE \div args.dp_size ELSE 0]
    /\ DP_GROUP = [r \in Ranks |->
          IF WORLD_SIZE > 1
          THEN ProcessGroup(all_DP_GROUP(WORLD_SIZE, mp_size[r])[mp_rank(r, mp_size[r]) + 1])
          ELSE SingleGPUGroup]
    /\ MP_GROUP = [r \in Ranks |->
          IF WORLD_SIZE > 1
          THEN ProcessGroup(all_MP_GROUP(args.dp_size, mp_size[r])[dp_rank(r, mp_size[r]) + 1])
          ELSE SingleGPUGroup]
    /\ DEFAULT_GROUP = [r \in Ranks |->
          IF WORLD_SIZE > 1 THEN ProcessGroup(RangeList(0, WORLD_SIZE, 1)) ELSE SingleGPUGroup]
    /\ IN_NODE_GROUP = [r \in Ranks |->
          IF WORLD_SIZE > 1
          THEN ProcessGroup(all_in_node_group(WORLD_SIZE, device_count)
                               [node_rank(r, device_count) + 1])
          ELSE SingleGPUGroup]
    /\ new_groups = [r \in Ranks |->
          IF WORLD_SIZE > 1
          THEN NewGroupCalls("DP", all_DP_GROUP(WORLD_SIZE, mp_size[r]))
                  \o NewGroupCalls("MP", all_MP_GROUP(args.dp_size, mp_size[r]))
                  \o NewGroupCalls("NODE", all_in_node_group(WORLD_SIZE, device_count))
          ELSE <<>>]
    /\ pc = [r \in Ranks |-> "training_setup"]
    /\ issued = [r \in Ranks |->
          IF WORLD_SIZE > 1
          THEN <<LogEntry(Call("init_process_group", "GLOBAL", 150, 0, <<>>)),
                 LogEntry(Call("barrier", "GLOBAL", 568, 0, <<>>))>>
          ELSE <<>>]
    /\ wait = [r \in Ranks |-> NoCall]
    /\ queue = [r \in Ranks |-> <<>>]
    /\ gathered = [r \in Ranks |-> <<>>]
    /\ iteration = [r \in Ranks |-> 0]
    /\ micro_step = [r \in Ranks |-> 0]
    /\ phases = [r \in Ranks |-> <<>>]
    /\ batched_screenspace_pkg = [r \in Ranks |-> EmptyPkg]
    /\ disable_auto_densification = [r \in Ranks |-> FALSE]
    /\ DENSIFY_ITER = [r \in Ranks |-> 0]
    /\ testing_iterations = [r \in Ranks |-> args.test_iterations]
    /\ batched_strategies = [r \in Ranks |-> <<>>]
    /\ model_params = [r \in Ranks |-> FreshModelParams(r, WORLD_SIZE)]
    /\ param_grad = [r \in Ranks |-> {}]
    /\ cameraId2StrategyHistory = [r \in Ranks |-> <<>>]
    /\ losses_cpu = [r \in Ranks |-> <<>>]
    /\ evaluation = [r \in Ranks |-> NoEvaluation]
    /\ disk_log = [r \in Ranks |-> <<>>]

\* The training runs: a world of one node, any dp_size that init_distributed
\* accepts, any batch size, replicated or distributed entities, timers on or off.
Init ==
    /\ WORLD_SIZE \in 1 .. MaxTrainWorld
    /\ device_count = WORLD_SIZE
    /\ args \in {[DefaultArgs EXCEPT !.dp_size = d, !.bsz = b, !.more_sync = m,
                                     !.zhx_python_time = t, !.gaussians_distribution = g] :
                    d \in 1 .. MaxTrainWorld, b \in 1 .. MaxBsz,
                    m \in BOOLEAN, t \in BOOLEAN, g \in BOOLEAN}
    /\ WORLD_SIZE > 1 => WorldSizeAssert(WORLD_SIZE, args.dp_size)
    /\ backward_grad = DefaultBackwardGrad
    /\ InitDisk
    /\ MainReturned

Next ==
    \/ \E r \in Ranks : IssueQueued(r)
    \/ \E r \in Ranks : CollectiveComplete(r)
    \/ \E r \in Ranks : TrainingSetup(r)
    \/ \E r \in Ranks : LoopHead(r)
    \/ \E r \in Ranks : PrepareStrategies(r)
    \/ \E r \in Ranks : MicroBatchSetup(r)
    \/ \E r \in Ranks : Preprocess(r)
    \/ \E r \in Ranks : Render(r)
    \/ \E r \in Ranks : Loss(r)
    \/ \E r \in Ranks : Backward(r)
    \/ \E r \in Ranks : SyncGradients(r)
    \/ \E r \in Ranks : UpdateStatsGather(r)
    \/ \E r \in Ranks : UpdateStatsApply(r)
    \/ \E r \in Ranks : AllgatherLoss(r)
    \/ \E r \in Ranks : UpdateLosses(r)
    \/ \E r \in Ranks : TrainingReport(r)
    \/ \E r \in Ranks : Densification(r)
    \/ \E r \in Ranks : MemoryCheck(r)
    \/ \E r \in Ranks : SaveGaussians(r)
    \/ \E r \in Ranks : CheckpointSave(r)
    \/ \E r \in Ranks : OptimizerStep(r)
    \/ \E r \in Ranks : FinishIteration(r)

\* training() on every worker, from its call in __main__ to its return
Spec == Init /\ [][Next]_vars

\* ------------------------------------------------------------ a grid of workers
GridWorld == 4     \* WORLD_SIZE of the runs on a grid of workers

\* The runs on a grid: every dp_size that divides the world (4 workers: 1 x 4,
\* 2 x 2, 4 x 1), one or more cameras for each data-parallel row, timers on, no
\* warm-up, replicated or distributed entities; the first two workers touched
\* something or nothing.
InitGrid ==
    /\ WORLD_SIZE = GridWorld
    /\ device_count = WORLD_SIZE
    /\ args \in {[DefaultArgs EXCEPT !.dp_size = d, !.bsz = d * n, !.iterations = 1,
                                     !.adjust_strategy_warmp_iterations = 0,
                                     !.zhx_python_time = TRUE,
                                     !.gaussians_distribution = g] :
                    d \in 1 .. GridWorld, n \in 1 .. MaxBsz, g \in BOOLEAN}
    /\ WorldSizeAssert(WORLD_SIZE, args.dp_size)
    /\ backward_grad \in {[r \in Ranks |-> IF r \in Z THEN 0 ELSE r + 1] :
                             Z \in SUBSET {0, 1}}
    /\ InitDisk
    /\ MainReturned

NextGrid ==
    \/ \E r \in Ranks : IssueQueued(r)
    \/ \E r \in Ranks : CollectiveComplete(r)
    \/ \E r \in Ranks : TrainingSetup(r)
    \/ \E r \in Ranks : LoopHead(r)
    \/ \E r \in Ranks : PrepareStrategies(r)
    \/ \E r \in Ranks : MicroBatchSetup(r)
    \/ \E r \in Ranks : Preprocess(r)
    \/ \E r \in Ranks : Render(r)
    \/ \E r \in Ranks : Loss(r)
    \/ \E r \in Ranks : Backward(r)
    \/ \E r \in Ranks : SyncGradients(r)
    \/ \E r \in Ranks : UpdateStatsGather(r)
    \/ \E r \in Ranks : UpdateStatsApply(r)
    \/ \E r \in Ranks : AllgatherLoss(r)
    \/ \E r \in Ranks : UpdateLosses(r)

\* The first iteration of training() on a grid of workers, up to
\* update_losses
SpecGrid == InitGrid /\ [][NextGrid]_vars

\* ------------------------------------------------------------ other runs
MaxFrequency == 2      \* largest args.redistribute_gaussians_frequency explored

\* The batch of a run from iteration 1 with batch size bsz whose window holds
\* iteration i (train.py 176, 395)
BatchOf(i, bsz) == i - ((i - 1) % bsz)

\* The batches before batch i of such a run
BatchesBefore(i, bsz) == {k \in 1 .. (i - 1) : (k - 1) % bsz = 0}

\* The folder that a run of world workers from iteration 1 leaves for the
\* checkpoint iteration ckpt: one file for each worker (train.py 395-405),
\* written before the optimizer step of its batch (409-455)
SavedCheckpoint(world, bsz, ckpt) ==
    {[folder |-> BatchOf(ckpt, bsz), rank |-> k,
      model_params |-> [updates |-> BatchesBefore(BatchOf(ckpt, bsz), bsz),
                        shard |-> <<k, world>>],
      iteration |-> BatchOf(ckpt, bsz)] : k \in 0 .. (world - 1)}

\* Runs with a densification event in every iteration from 2 on, with and
\* without redistribution
InitRedistribute ==
    /\ args \in {[DefaultArgs EXCEPT !.dp_size = d, !.bsz = b,
                                     !.densification_interval = 1,
                                     !.densify_until_iter = MaxIterations,
                                     !.redistribute_gaussians_mode = mode,
                                     !.redistribute_gaussians_frequency = f] :
                    d \in 1 .. MaxTrainWorld, b \in 1 .. MaxBsz,
                    mode \in {"random_redistribute", "no_redistribute"},
                    f \in 1 .. MaxFrequency}
    /\ checkpoints = {}

\* Runs that start from the checkpoint that an earlier run of 2 or more
\* workers, with the same arguments, has saved
InitRestore ==
    /\ \E world \in 2 .. (MaxTrainWorld + 1) :
          \E d \in 1 .. MaxTrainWorld, b \in 1 .. MaxBsz :
             \E ckpt \in DefaultArgs.checkpoint_iterations :
                /\ args = [DefaultArgs EXCEPT !.dp_size = d, !.bsz = b,
                                              !.start_checkpoint = BatchOf(ckpt, b)]
                /\ checkpoints = SavedCheckpoint(world, b, ckpt)

\* Runs with other save and checkpoint iterations: two iterations that fall
\* into two batches without starting them when bsz is 2, and two iterations
\* that fall into one batch; with and without the debugging flag
\* stop_update_param
InitSaves ==
    /\ args \in {[DefaultArgs EXCEPT !.dp_size = d, !.bsz = b,
                                     !.save_iterations = its,
                                     !.checkpoint_iterations = its,
                                     !.stop_update_param = stop] :
                    d \in 1 .. MaxTrainWorld, b \in 1 .. MaxBsz,
                    its \in {{2, 4}, {3, 4}}, stop \in BOOLEAN}
    /\ checkpoints = {}

InitVariants ==
    /\ WORLD_SIZE \in 1 .. MaxTrainWorld
    /\ device_count = WORLD_SIZE
    /\ InitRedistribute \/ InitRestore
    /\ WORLD_SIZE > 1 => WorldSizeAssert(WORLD_SIZE, args.dp_size)
    /\ backward_grad = DefaultBackwardGrad
    /\ strategy_history = EmptyStrategyHistory
    /\ gaussians = NoGaussians
    /\ InitCalls
    /\ MainReturned

\* training() in these runs
SpecVariants == InitVariants /\ [][Next]_vars

\* The training runs with these save and checkpoint iterations
InitSaveRuns ==
    /\ WORLD_SIZE \in 1 .. MaxTrainWorld
    /\ device_count = WORLD_SIZE
    /\ InitSaves
    /\ WORLD_SIZE > 1 => WorldSizeAssert(WORLD_SIZE, args.dp_size)
    /\ backward_grad = DefaultBackwardGrad
    /\ strategy_history = EmptyStrategyHistory
    /\ gaussians = NoGaussians
    /\ InitCalls
    /\ MainReturned

SpecSaves == InitSaveRuns /\ [][Next]_vars

\* ------------------------------------------------------------ one strategy history
\* The history of one view, created in either mode for 1..MaxTrainWorld
\* workers, and any sequence of calls on it; training() is not running.
InitHistory ==
    /\ WORLD_SIZE \in 1 .. MaxTrainWorld
    /\ device_count = WORLD_SIZE
    /\ args = DefaultArgs
    /\ backward_grad = DefaultBackwardGrad
    /\ checkpoints = {}
    /\ gaussians = NoGaussians
    /\ strategy_history \in {NewStrategyHistory(mode, WORLD_SIZE) :
                                mode \in {"even", "history-based"}}
    /\ InitCalls
    /\ MainReturned

NextHistory ==
    \/ StartStrategy
    \/ UpdateStats
    \/ FinishStrategy

SpecHistory == InitHistory /\ [][NextHistory]_vars

\* The storage of a run of 1 .. MaxTrainWorld workers, driven by any sequence
\* of point-count-changing events and redistributions
InitOwnership ==
    /\ WORLD_SIZE \in 1 .. MaxTrainWorld
    /\ device_count = WORLD_SIZE
    /\ args = DefaultArgs
    /\ backward_grad = DefaultBackwardGrad
    /\ checkpoints = {}
    /\ strategy_history = EmptyStrategyHistory
    /\ gaussians \in {NewGaussians(n, WORLD_SIZE) : n \in 0 .. MaxEntities}
    /\ InitCalls
    /\ MainReturned

NextOwnership ==
    \/ DensifyAndPrune
    \/ RedistributeGaussians

SpecOwnership == InitOwnership /\ [][NextOwnership]_vars

\* Calls of check_update_at_this_iter with 0 <= iteration, 1 <= bsz,
\* 1 <= update_interval and 0 <= update_residual < update_interval, and full
\* runs of the densification schedule with bsz <= densification_interval
InitFunctions ==
    /\ WORLD_SIZE = 1
    /\ device_count = WORLD_SIZE
    /\ args = DefaultArgs
    /\ backward_grad = DefaultBackwardGrad
    /\ checkpoints = {}
    /\ strategy_history = EmptyStrategyHistory
    /\ gaussians = NoGaussians
    /\ cameras = <<>>
    /\ \/ /\ call_record \in
                {[fn |-> "check_update_at_this_iter", in |-> <<i, b, u, res>>,
                  out |-> <<>>] :
                    i \in 0 .. MaxCallIteration, b \in 1 .. MaxCallBsz,
                    u \in 1 .. MaxInterval, res \in 0 .. (MaxInterval - 1)}
          /\ call_record.in[4] < call_record.in[3]
       \/ /\ call_record \in
                {[fn |-> "densification", in |-> <<n, b, from, until, u>>, out |-> <<>>] :
                    n \in 1 .. MaxCallIteration, b \in 1 .. MaxInterval,
                    from \in 0 .. MaxCallIteration, until \in 0 .. MaxCallIteration,
                    u \in 1 .. MaxInterval}
          /\ call_record.in[2] <= call_record.in[5]
    /\ MainReturned

NextFunctions ==
    \/ CallCheckUpdate
    \/ CallNumDensifications

SpecFunctions == InitFunctions /\ [][NextFunctions]_vars

\* The loading of the cameras of a scene, with and without lazy loading of
\* the images; training() is not running.
InitCameras ==
    /\ WORLD_SIZE \in 1 .. MaxTrainWorld
    /\ device_count = WORLD_SIZE
    /\ args \in {[DefaultArgs EXCEPT !.lazy_load_image = lazy] : lazy \in BOOLEAN}
    /\ backward_grad = DefaultBackwardGrad
    /\ InitDisk
    /\ MainReturned

NextCameras == CameraInit

SpecCameras == InitCameras /\ [][NextCameras]_vars

\* In every start-up that reaches training() on one node, training() starts
\* in the state MainReturned.
StartOfTraining ==
    ((\A r \in Ranks : pc[r] = "training_setup" /\ Ready(r)) /\ device_count = WORLD_SIZE)
        => MainReturned

\* ------------------------------------------------------------ claims: topology
Min(a, b) == IF a < b THEN a ELSE b

\* init_distributed has run its group-creation loops (lines 165-178) on r
PastParallelGroups(r) ==
    /\ WORLD_SIZE > 1
    /\ pc[r] \notin {"init_distributed", "new_groups", "AssertionError_world_size"}

\* init_distributed has returned on r
InitReturned(r) ==
    pc[r] \notin {"init_distributed", "new_groups", "in_node_groups",
                  "AssertionError_world_size", "IndexError"}

\* The rank sets of the groups of one kind that worker r has created
Created(r, kind) ==
    {SeqToSet(new_groups[r][i].ranks) :
        i \in {j \in DOMAIN new_groups[r] : new_groups[r][j].kind = kind}}

NumCreated(r, kind) ==
    Cardinality({j \in DOMAIN new_groups[r] : new_groups[r][j].kind = kind})

IsPartition(family, S) ==
    /\ UNION family = S
    /\ {} \notin family
    /\ \A a, b \in family : a # b => a \cap b = {}

\* C2: for W = dp_size * mp_size > 1, rank r's MODEL_PARALLEL group is the
\* ranks with the same r div mp_size and its DATA_PARALLEL group the ranks
\* with the same r mod mp_size; r's index in them is r div mp_size and
\* r mod mp_size; W = 4, dp_size = 2 gives {0,1},{2,3} and {0,2},{1,3}.
C2_GroupsFollowFormula ==
    \A r \in Ranks :
        PastParallelGroups(r) =>
            LET mp == WORLD_SIZE \div args.dp_size
            IN  /\ MP_GROUP[r].kind = "dist" /\ DP_GROUP[r].kind = "dist"
                /\ SeqToSet(MP_GROUP[r].ranks) = {q \in Ranks : q \div mp = r \div mp}
                /\ SeqToSet(DP_GROUP[r].ranks) = {q \in Ranks : q % mp = r % mp}
                /\ GroupRank(DP_GROUP[r], r) = r \div mp
                /\ GroupRank(MP_GROUP[r], r) = r % mp
                /\ (WORLD_SIZE = 4 /\ args.dp_size = 2) =>
                      /\ SeqToSet(MP_GROUP[r].ranks) \in {{0, 1}, {2, 3}}
                      /\ SeqToSet(DP_GROUP[r].ranks) \in {{0, 2}, {1, 3}}

C2_Witness ==
    /\ WORLD_SIZE = 4 /\ args.dp_size = 2
    /\ \A r \in Ranks : PastParallelGroups(r)
    /\ DP_GROUP[3].ranks = <<1, 3>> /\ MP_GROUP[3].ranks = <<2, 3>>

\* C3: once init_distributed has returned, GLOBAL size = DATA_PARALLEL size
\* times MODEL_PARALLEL size, and the DATA_PARALLEL groups and the
\* MODEL_PARALLEL groups each partition the ranks; a world size that dp_size
\* does not divide fails the assertion before any sub-group is created.
C3_SizesAndPartitions ==
    \A r \in Ranks :
        /\ InitReturned(r) =>
              GroupSize(DEFAULT_GROUP[r]) = GroupSize(DP_GROUP[r]) * GroupSize(MP_GROUP[r])
        /\ (InitReturned(r) /\ WORLD_SIZE > 1) =>
              /\ IsPartition(Created(r, "DP"), Ranks)
              /\ IsPartition(Created(r, "MP"), Ranks)
              /\ NumCreated(r, "DP") = Cardinality(Created(r, "DP"))
              /\ NumCreated(r, "MP") = Cardinality(Created(r, "MP"))
              /\ SeqToSet(DP_GROUP[r].ranks) \in Created(r, "DP")
              /\ SeqToSet(MP_GROUP[r].ranks) \in Created(r, "MP")
        /\ (InitReturned(r) /\ WORLD_SIZE = 1) =>
              /\ SeqToSet(DP_GROUP[r].ranks) = Ranks
              /\ SeqToSet(MP_GROUP[r].ranks) = Ranks
        /\ (WORLD_SIZE > 1 /\ WORLD_SIZE % args.dp_size # 0 /\ pc[r] # "init_distributed") =>
              /\ pc[r] = "AssertionError_world_size"
              /\ new_groups[r] = <<>>

C3_Witness ==
    /\ WORLD_SIZE = 4 /\ args.dp_size = 2
    /\ \A r \in Ranks : InitReturned(r)
    /\ GroupSize(DP_GROUP[0]) = 2 /\ GroupSize(MP_GROUP[0]) = 2

\* C4: after init_distributed every rank holds all four groups and is a
\* member of exactly one NODE_LOCAL group, for every world size W > 1 and
\* every per-node device count.
C4_FourGroupsAlwaysExist ==
    \A r \in Ranks :
        (WORLD_SIZE > 1 /\ pc[r] \notin {"init_distributed", "new_groups", "in_node_groups",
                                        "AssertionError_world_size"}) =>
            /\ DEFAULT_GROUP[r] # NoGroup /\ DP_GROUP[r] # NoGroup
            /\ MP_GROUP[r] # NoGroup /\ IN_NODE_GROUP[r] # NoGroup
            /\ Cardinality({g \in Created(r, "NODE") : r \in g}) = 1

\* C5: the rank lists passed to new_group and their order do not depend on
\* the calling rank: any two workers have made the same calls so far, and
\* the same calls once both are through.
C5_SameGroupsOnEveryWorker ==
    \A r1, r2 \in Ranks :
        LET n == Min(Len(new_groups[r1]), Len(new_groups[r2]))
        IN  /\ SubSeq(new_groups[r1], 1, n) = SubSeq(new_groups[r2], 1, n)
            /\ (pc[r1] = pc[r2]) => new_groups[r1] = new_groups[r2]

C5_Witness ==
    /\ WORLD_SIZE = 4 /\ args.dp_size = 2 /\ device_count = 2
    /\ InitReturned(1) /\ InitReturned(2)
    /\ Len(new_groups[1]) = 6 /\ new_groups[1] = new_groups[2]

\* The positions of a worker up to the divisibility assertion of train.py 213,
\* and the ways it can have stopped by then.
UpToBszAssert ==
    {"init_distributed", "new_groups", "in_node_groups", "init_args", "log_folder",
     "training_setup", "loop_head", "prepare_strategies", "micro_setup",
     "AssertionError_world_size", "AssertionError_bsz", "IndexError", "AttributeError"}

\* C6 as stated: a batch size that dp_size does not divide is detected before
\* any process group is created and before any collective is issued by any
\* worker.
C6_DetectedBeforeAnyCollective ==
    \A r \in Ranks :
        pc[r] = "AssertionError_bsz" =>
            \A q \in Ranks : issued[q] = <<>> /\ new_groups[q] = <<>>

\* C6 as amended: a batch size that dp_size does not divide stops every worker
\* at the assertion of its first training iteration, after the strategies of
\* the batch are started and before any micro step; the only collectives
\* issued by then are those of start-up (process group, barrier of __main__)
\* and the more_sync barrier at the loop head.
C6_DetectedBeforeFirstMicroStep ==
    \A r \in Ranks :
        /\ args.bsz % args.dp_size # 0 => pc[r] \in UpToBszAssert
        /\ pc[r] = "AssertionError_bsz" =>
              /\ args.bsz % args.dp_size # 0
              /\ iteration[r] = 1
              /\ phases[r] = <<"start_strategy">>
              /\ \A i \in DOMAIN issued[r] : issued[r][i].site \in {150, 568, 179}

C6_Witness ==
    \E r \in Ranks :
        /\ pc[r] = "AssertionError_bsz"
        /\ WORLD_SIZE > 1
        /\ Len(issued[r]) >= 2 /\ new_groups[r] # <<>>

\* ------------------------------------------------------------ claims: collectives
\* The logical step of a logged call: the operation, the group, the iteration
\* and the call site; the two branches of line 400 make the same call.
LogicalStep(e) ==
    [op |-> e.op, group |-> e.group, iter |-> e.iter,
     step |-> IF e.site = 404 THEN 402 ELSE e.site]

\* The calls worker r has issued on its group of kind g, in call order
IssuedOn(r, g) ==
    LET on == SelectSeq(issued[r], LAMBDA e : e.group = g)
    IN  [k \in DOMAIN on |-> LogicalStep(on[k])]

\* training() has ended on r: it returned or it raised
Ended(r) == pc[r] = "done" \/ Crashed(r)

\* C1: any two members of one communication group (GLOBAL, DATA_PARALLEL,
\* MODEL_PARALLEL) have issued the same sequence of collective calls on that
\* group, call for call the same logical step of the same iteration, as far as
\* both have got; and a member whose training has ended has issued every call
\* that any other member has issued, so no member waits for a call that
\* another member never makes.
C1_SameCollectiveSequence ==
    \A g \in {"GLOBAL", "DP", "MP"} : \A r1 \in Ranks : \A r2 \in Ranks :
        (r1 < r2 /\ Handle(r1, g).kind = "dist" /\ Handle(r1, g) = Handle(r2, g)) =>
            LET a == IssuedOn(r1, g)
                b == IssuedOn(r2, g)
                n == Min(Len(a), Len(b))
            IN  /\ SubSeq(a, 1, n) = SubSeq(b, 1, n)
                /\ Ended(r1) => Len(b) <= Len(a)
                /\ Ended(r2) => Len(a) <= Len(b)

\* C1 witness: two workers of one model-parallel group have both returned from
\* training() after issuing all-reduces on the model-parallel group, the
\* all-gathers of running times and of memory usage and the checkpoint barrier
\* on the global group.
C1_Witness ==
    \E r1 \in Ranks : \E r2 \in Ranks :
        /\ r1 # r2
        /\ pc[r1] = "done" /\ pc[r2] = "done"
        /\ MP_GROUP[r1] = MP_GROUP[r2]
        /\ \E k \in DOMAIN issued[r1] : issued[r1][k].site = 309
        /\ \E k \in DOMAIN issued[r1] : issued[r1][k].site = 325
        /\ \E k \in DOMAIN issued[r1] : issued[r1][k].site = 102
        /\ \E k \in DOMAIN issued[r2] : issued[r2][k].site = 404

\* ------------------------------------------------------------ claims: memory latch
\* Worker r makes the memory check of a densification event in this step
MemoryCheckStep(r) == DENSIFY_ITER'[r] = DENSIFY_ITER[r] + 1

\* The all-gather of memory usage returns on worker r in this step
MemoryGatherReturns(r) == wait[r].site = 102 /\ wait'[r] = NoCall

\* The memory usage that the worker of global rank i handed to the all-gather
\* it is blocked in
ReportedMemoryUsage(i) == wait[i].data[1]

\* After each memory check all workers hold the same latch value: two workers
\* that have made the same number of memory checks agree on the latch.
SameLatchAfterEachCheck ==
    \A r1 \in Ranks : \A r2 \in Ranks :
        DENSIFY_ITER[r1] = DENSIFY_ITER[r2]
            => disable_auto_densification[r1] = disable_auto_densification[r2]

\* C7: at every memory check the latch is set exactly when the maximum of the
\* memory usages reported by the workers of the GLOBAL group is strictly
\* greater than 17.5: the list a worker examines holds, for every worker, the
\* usage that worker reported, the memory check sets the latch exactly when some
\* entry of the list exceeds the threshold, and after each memory check all
\* workers hold the same latch value.
C7_LatchIffMaxReportedOverThreshold ==
    /\ [][\A r \in Ranks :
            /\ MemoryGatherReturns(r) =>
                  \A i \in Ranks : gathered'[r][i + 1][1] = ReportedMemoryUsage(i)
            /\ MemoryCheckStep(r) =>
                  (disable_auto_densification'[r]
                      <=> \E i \in DOMAIN gathered[r] : gathered[r][i][1] > MemoryThreshold)
         ]_vars
    /\ []SameLatchAfterEachCheck

\* What the memory check decides on: the latch is set exactly when the maximum of
\* the reported usages, each rounded to single precision by the all-gather, is
\* strictly greater than 17.5, and all workers hold the same latch value
\* after each check.
LatchIffMaxRoundedOverThreshold ==
    /\ [][\A r \in Ranks :
            /\ MemoryGatherReturns(r) =>
                  \A i \in Ranks : gathered'[r][i + 1][1] = Float32Of(ReportedMemoryUsage(i))
            /\ MemoryCheckStep(r) =>
                  (disable_auto_densification'[r]
                      <=> \E i \in DOMAIN gathered[r] : gathered[r][i][1] > MemoryThreshold)
         ]_vars
    /\ []SameLatchAfterEachCheck

\* C7 witness: every worker is blocked in the all-gather of a densification
\* event, one reports 17.5 GiB + 512 bytes and no worker reports more.
C7_Witness ==
    /\ WORLD_SIZE > 1
    /\ \A r \in Ranks : wait[r].site = 102 /\ ReportedMemoryUsage(r) <= MemoryThreshold + 1
    /\ \E r \in Ranks : ReportedMemoryUsage(r) = MemoryThreshold + 1

\* One worker reporting 18.0 GiB latches: worker r1 has set the latch from a
\* list in which it alone is over the threshold, the other worker reported
\* 17.0 GiB and still holds the list.
LatchedByOneWorker ==
    \E r1 \in Ranks : \E r2 \in Ranks :
        /\ r1 # r2
        /\ disable_auto_densification[r1]
        /\ pc[r2] = "memory_check" /\ Ready(r2)
        /\ gathered[r2][r1 + 1][1] = 37748736
        /\ gathered[r2][r2 + 1][1] = 35651584

\* C8: the latch is one-way.  Once disable_auto_densification is set on a
\* worker it stays set in every later state, and from then on densification()
\* does nothing: no densify_and_prune, no other step of a densification event,
\* no opacity reset and no collective.
C8_LatchIsOneWay ==
    [][\A r \in Ranks :
          disable_auto_densification[r] =>
             /\ disable_auto_densification'[r]
             /\ \A k \in DOMAIN phases'[r] :
                   (k > Len(phases[r]) \/ phases'[r][k] # phases[r][k])
                      => phases'[r][k] \notin
                            {"densify_and_prune", "redistribute_gaussians",
                             "allgather_memory_usage", "reset_opacity"}
             /\ (pc[r] = "densification" /\ pc'[r] # "densification")
                   => (queue'[r] = <<>> /\ phases'[r] = phases[r])
      ]_vars

\* C8 witness: a latched worker has passed densification() in an iteration in
\* which a densification event was due, without densifying.
C8_Witness ==
    \E r \in Ranks :
        /\ disable_auto_densification[r]
        /\ DensifyDue(r)
        /\ iteration[r] <= args.densify_until_iter
        /\ pc[r] = PhaseAfter("densification")
        /\ \A k \in DOMAIN phases[r] : phases[r][k] # "densify_and_prune"

\* ------------------------------------------------------------ claims: order of the phases
\* The positions of phase name in the phase log of worker r's current iteration
PositionsOf(r, name) == {k \in DOMAIN phases[r] : phases[r][k] = name}

\* Worker r has issued the all-gather of memory usage of its current iteration
MemoryGatherIssued(r) ==
    \E k \in DOMAIN issued[r] : issued[r][k].site = 102 /\ issued[r][k].iter = iteration[r]

\* C9 as stated: in every densification event the all-gather of memory usage
\* and the latch decision happen before densify_and_prune of that event, so a
\* worker that has executed densify_and_prune in its current iteration has
\* already issued the all-gather of that iteration and made the memory check.
C9_GatherBeforeDensifyAndPrune ==
    \A r \in Ranks :
        PositionsOf(r, "densify_and_prune") # {} =>
            /\ MemoryGatherIssued(r)
            /\ \A i \in PositionsOf(r, "densify_and_prune") :
                  \E j \in PositionsOf(r, "memory_check") : j < i

\* C9 amended: in every densification event densify_and_prune, and the
\* redistribution when it is due, run first; the all-gather of memory usage is
\* issued after them and the latch decision follows the all-gather, in the same
\* call of densification().  A worker only issues the all-gather of an
\* iteration after its densify_and_prune of that iteration, it leaves the
\* event only through the memory check, and there is at most one
\* densify_and_prune in an iteration: the decision of one event is made before
\* the densify_and_prune of every later event.
C9_GatherAfterDensifyAndPrune ==
    \A r \in Ranks :
        /\ Cardinality(PositionsOf(r, "densify_and_prune")) <= 1
        /\ MemoryGatherIssued(r) => PositionsOf(r, "densify_and_prune") # {}
        /\ \A j \in PositionsOf(r, "allgather_memory_usage") :
              \E i \in PositionsOf(r, "densify_and_prune") : i < j
        /\ \A j \in PositionsOf(r, "redistribute_gaussians") :
              /\ \E i \in PositionsOf(r, "densify_and_prune") : i < j
              /\ \E i \in PositionsOf(r, "allgather_memory_usage") : j < i
        /\ \A j \in PositionsOf(r, "memory_check") :
              \E i \in PositionsOf(r, "allgather_memory_usage") : i < j
        /\ (PositionsOf(r, "densify_and_prune") # {} /\ PositionsOf(r, "memory_check") = {})
              => (pc[r] = "memory_check" \/ Crashed(r))
        /\ PositionsOf(r, "memory_check") # {} => MemoryGatherIssued(r)

\* C9 witness: a worker has completed a densification event that set the
\* latch: densify_and_prune, the all-gather and the memory check are in its log.
C9_Witness ==
    \E r \in Ranks :
        /\ disable_auto_densification[r]
        /\ PositionsOf(r, "densify_and_prune") # {}
        /\ PositionsOf(r, "redistribute_gaussians") # {}
        /\ PositionsOf(r, "memory_check") # {}
        /\ MemoryGatherIssued(r)

\* The place of a phase in the order of an iteration
PhaseRank(name) ==
    CASE name = "start_strategy" -> 1
      [] name \in {"preprocess", "render", "loss", "backward"} -> 2
      [] name = "sync_gradients" -> 3
      [] name = "update_stats" -> 4
      [] name = "evaluation" -> 5
      [] name \in {"densify_and_prune", "redistribute_gaussians", "allgather_memory_usage",
                   "memory_check", "reset_opacity"} -> 6
      [] name = "optimizer_step" -> 7

\* C10: in every iteration a worker executes the phases in the order start
\* strategies; preprocess, render, loss, backward for each micro step; gradient
\* sync; strategy statistics update; densification (densify, redistribute,
\* memory check, opacity reset); optimizer step.  Gradient sync comes after the
\* last backward of all micro steps and before the optimizer step, nothing of
\* densification comes after the optimizer step, and an iteration that reaches
\* its end has run every phase, the optimizer step whenever the iteration is
\* below the total.
C10_PhaseOrder ==
    \A r \in Ranks :
        LET p == phases[r]
            micro == <<"preprocess", "render", "loss", "backward">>
        IN  /\ \A i \in 1 .. (Len(p) - 1) : PhaseRank(p[i]) <= PhaseRank(p[i + 1])
            /\ \A i \in DOMAIN p :
                  PhaseRank(p[i]) = 2 => p[i] = micro[((i - 2) % 4) + 1]
            /\ \A name \in {"start_strategy", "sync_gradients", "update_stats",
                            "optimizer_step"} :
                  Cardinality(PositionsOf(r, name)) <= 1
            /\ Len(p) > 0 => p[1] = "start_strategy"
            /\ PositionsOf(r, "sync_gradients") # {} =>
                  Cardinality(PositionsOf(r, "backward")) = num_samples_per_dp_worker
            /\ PositionsOf(r, "optimizer_step") # {} =>
                  /\ PositionsOf(r, "sync_gradients") # {}
                  /\ PositionsOf(r, "update_stats") # {}
                  /\ p[Len(p)] = "optimizer_step"
            /\ pc[r] = "cleanup" =>
                  /\ PositionsOf(r, "sync_gradients") # {}
                  /\ PositionsOf(r, "update_stats") # {}
                  /\ (PositionsOf(r, "optimizer_step") # {}
                         <=> iteration[r] < args.iterations)

\* C10 witness: a worker is at the end of an iteration of two micro steps in
\* which it densified, made the memory check and stepped the optimizer.
C10_Witness ==
    \E r \in Ranks :
        /\ pc[r] = "cleanup"
        /\ Cardinality(PositionsOf(r, "backward")) = 2
        /\ PositionsOf(r, "densify_and_prune") # {}
        /\ PositionsOf(r, "memory_check") # {}
        /\ PositionsOf(r, "optimizer_step") # {}

\* ------------------------------------------------------------ claims: strategies
\* The positions of training() after the update_stats block of an iteration
AfterUpdateStats(r) ==
    pc[r] \in {"allgather_loss", "update_losses", "training_report", "densification",
               "memory_check", "save", "checkpoint_save", "optimizer_step", "cleanup"}

\* The condition of train.py 319
StatsAreCollected(r) ==
    /\ iteration[r] > args.adjust_strategy_warmp_iterations
    /\ GroupSize(DEFAULT_GROUP[r]) > 1

\* C11 as stated: at the end of every iteration every strategy started in it
\* has received update_stats and finish_strategy; none is left started.
C11_EveryStartedStrategyFinished ==
    \A r \in Ranks :
       pc[r] = "cleanup" =>
          \A idx \in DOMAIN batched_strategies[r] :
             batched_strategies[r][idx].state = "finished"

\* C11 amended: after the update_stats block of an iteration, one strategy
\* has been started for each camera of the batch; past the warm-up iterations
\* of a run with more than one worker each of them has received update_stats
\* and then finish_strategy, and in the warm-up iterations and in a run of one
\* worker each of them is still started.
C11_FinishedOnceStatsAreCollected ==
    \A r \in Ranks :
       AfterUpdateStats(r) =>
          /\ Len(batched_strategies[r]) = args.bsz
          /\ \A idx \in DOMAIN batched_strategies[r] :
                IF StatsAreCollected(r)
                THEN /\ batched_strategies[r][idx].state = "finished"
                     /\ batched_strategies[r][idx].stats # <<>>
                ELSE batched_strategies[r][idx] = StartedStrategy

\* A worker of a data-parallel run ends an iteration past the warm-up with the
\* two strategies of its batch finished.
C11_Witness ==
    \E r \in Ranks :
       /\ pc[r] = "cleanup"
       /\ StatsAreCollected(r)
       /\ GroupSize(DP_GROUP[r]) > 1
       /\ Len(batched_strategies[r]) = 2
       /\ \A idx \in DOMAIN batched_strategies[r] :
             batched_strategies[r][idx].state = "finished"

\* The global rank of member j of the model-parallel group of data-parallel
\* row dp_row
MemberOfRow(r, dp_row, j) == dp_row * GroupSize(MP_GROUP[r]) + j

\* Worker g rendered position idx of the batch in micro step m
Rendered(g, m, idx) ==
    /\ g \in Ranks
    /\ m \in 0 .. (num_samples_per_dp_worker - 1)
    /\ local_render_viewpoint_cam(g, m) = idx

\* C12: a finished strategy has received exactly one running time for each
\* member of the model-parallel group, and the j-th of them is the time that
\* member j of the group that rendered the strategy's view measured in the
\* micro step in which it rendered it (as the float32 the all-gather carries).
C12_TimesComeFromTheRenderingGroup ==
    \A r \in Ranks :
       AfterUpdateStats(r) =>
          \A idx \in DOMAIN batched_strategies[r] :
             LET strategy == batched_strategies[r][idx]
             IN  strategy.state = "finished" =>
                    /\ Len(strategy.stats) = GroupSize(MP_GROUP[r])
                    /\ \A j \in 0 .. (GroupSize(MP_GROUP[r]) - 1) :
                          \E dp_row \in 0 .. (GroupSize(DP_GROUP[r]) - 1) :
                             \E m \in 0 .. (num_samples_per_dp_worker - 1) :
                                LET g == MemberOfRow(r, dp_row, j)
                                IN  /\ Rendered(g, m, idx - 1)
                                    /\ GroupRank(MP_GROUP[g], g) = j
                                    /\ strategy.stats[j + 1] =
                                          Float32Of(get_local_running_time_by_modes(
                                                       stats_collector(g, m)))

\* On the 2 x 2 grid a worker holds the finished strategy of the last of four
\* cameras, with the times the two workers of the second row measured in
\* their second micro step.
C12_Witness ==
    \E r \in Ranks :
       /\ AfterUpdateStats(r)
       /\ GroupSize(MP_GROUP[r]) = 2 /\ GroupSize(DP_GROUP[r]) = 2
       /\ Len(batched_strategies[r]) = 4
       /\ batched_strategies[r][4].state = "finished"
       /\ batched_strategies[r][4].stats =
             <<Float32Of(stats_collector(2, 1)), Float32Of(stats_collector(3, 1))>>

\* ------------------------------------------------------------ claims: gradient sync
\* The positions of training() after line 305 of an iteration
AfterSyncGradients(r) ==
    pc[r] \in {"update_stats", "update_stats_apply"} \/ AfterUpdateStats(r)

\* The mean2D gradients are reduced over the model-parallel group (train.py 307)
ReplicatedSync(r) == ~args.gaussians_distribution /\ GroupSize(MP_GROUP[r]) > 1

\* The all-reduces of line 309 that worker r makes in its iteration: made or
\* about to be made
ReductionCalls(r) ==
    Cardinality({k \in DOMAIN issued[r] :
                    issued[r][k].site = 309 /\ issued[r][k].iter = iteration[r]})
       + Cardinality({k \in DOMAIN queue[r] : queue[r][k].site = 309})

SyncDone(r) ==
    /\ AfterSyncGradients(r)
    /\ wait[r].site # 309
    /\ \A k \in DOMAIN queue[r] : queue[r][k].site # 309

EarlierEvents(r) ==
    {issued[r][k].iter : k \in {j \in DOMAIN issued[r] :
                                    issued[r][j].site = 102
                                       /\ issued[r][j].iter < iteration[r]}}

\* C16: redistribute_gaussians is called only right after densify_and_prune,
\* in exactly the densification events whose 0-based ordinal is a multiple of
\* redistribute_gaussians_frequency, and never in the mode no_redistribute;
\* DENSIFY_ITER is that ordinal, incremented once in every event.
C16_RedistributeOnEveryNthEvent ==
    \A r \in Ranks :
       LET ordinal == Cardinality(EarlierEvents(r))
           log == phases[r]
       IN  /\ \A p \in DOMAIN log :
                 /\ log[p] = "redistribute_gaussians" =>
                       p > 1 /\ log[p - 1] = "densify_and_prune"
                 /\ log[p] = "densify_and_prune" =>
                       /\ p + 1 \in DOMAIN log
                       /\ log[p + 1] = "redistribute_gaussians" <=>
                             /\ args.redistribute_gaussians_mode # "no_redistribute"
                             /\ ordinal % args.redistribute_gaussians_frequency = 0
           /\ pc[r] # "training_setup" =>
                 DENSIFY_ITER[r] =
                    ordinal + (IF PositionsOf(r, "memory_check") # {} THEN 1 ELSE 0)

\* A worker is in its third densification event, with a frequency of 2, and
\* has called redistribute_gaussians right after densify_and_prune.
C16_Witness ==
    \E r \in Ranks :
       /\ args.redistribute_gaussians_frequency = 2
       /\ Cardinality(EarlierEvents(r)) = 2
       /\ DENSIFY_ITER[r] = 2
       /\ \E p \in DOMAIN phases[r] :
             /\ phases[r][p] = "densify_and_prune"
             /\ p + 1 \in DOMAIN phases[r]
             /\ phases[r][p + 1] = "redistribute_gaussians"

\* ------------------------------------------------------------ claims: restore
\* The checkpoint to start from was written by another number of workers
\* than worker r runs with
OtherWorkerCount(r) ==
    /\ args.start_checkpoint # NoCheckpoint
    /\ \E f \in FilesOf(args.start_checkpoint) :
          f.model_params.shard[2] # GroupSize(DEFAULT_GROUP[r])

\* C20: a worker that is to start from a checkpoint written by another number
\* of workers stops at the assertion with the state it created itself and
\* never enters the loop; no worker ever holds the shard of a run of another
\* size.
C20_OtherWorkerCountRejected ==
    \A r \in Ranks :
       /\ OtherWorkerCount(r) /\ pc[r] # "training_setup" =>
             /\ pc[r] = "AssertionError_number_files"
             /\ model_params[r] = FreshModelParams(r, WORLD_SIZE)
             /\ iteration[r] = 0
       /\ model_params[r].shard = <<GroupRank(DEFAULT_GROUP[r], r), WORLD_SIZE>>

\* A worker of a run of two has been stopped at the assertion before the
\* checkpoint of a run of three.
C20_Witness ==
    \E r \in Ranks :
       /\ WORLD_SIZE = 2
       /\ pc[r] = "AssertionError_number_files"
       /\ Cardinality(FilesOf(args.start_checkpoint)) = 3

\* The folder that a run leaves for its checkpoint iteration is the one the
\* restoring runs start from.
CheckpointAsSaved ==
    \A ckpt \in args.checkpoint_iterations :
       (\A r \in Ranks : pc[r] = "done") /\ args.start_checkpoint = NoCheckpoint
          => FilesOf(BatchOf(ckpt, args.bsz)) = SavedCheckpoint(WORLD_SIZE, args.bsz, ckpt)

\* ------------------------------------------------------------ claims: strategy history
\* C18: a call of finish_strategy on a history whose active strategy has not
\* received update_stats leaves the history as it was: the window, the
\* estimate and the active strategy keep their values.
C18_FinishWithoutUpdateChangesNothing ==
    [][strategy_history'.last_call = "finish_strategy"
          /\ strategy_history.active.state # "measured"
       => /\ strategy_history'.window = strategy_history.window
          /\ strategy_history'.estimate = strategy_history.estimate
          /\ strategy_history'.active = strategy_history.active]_vars

\* finish_strategy has been called on a history with one measured record
\* whose second strategy was started and not measured: the strategy is still
\* started and the window still holds the one record.
C18_Witness ==
    /\ strategy_history.last_call = "finish_strategy"
    /\ strategy_history.active.state = "started"
    /\ strategy_history.started = 2
    /\ Len(strategy_history.window) = 1

\* C19: the first start_strategy on a history without a measured record
\* returns the even division and does not raise, in the history-based mode
\* as in the even mode; no start_strategy ever raises.
C19_FirstStrategyIsEven ==
    /\ strategy_history.active.state # "raised"
    /\ strategy_history.last_call = "start_strategy" /\ strategy_history.window = <<>>
          => /\ strategy_history.active.state = "started"
             /\ strategy_history.active.division = EvenDivision(strategy_history.mp)
             /\ \A j \in 0 .. (strategy_history.mp - 1) :
                   Cardinality(TilesOf(strategy_history.active.division, j))
                      \in {NumTiles \div strategy_history.mp,
                           NumTiles \div strategy_history.mp + 1}

\* A history-based history for two workers has given its first strategy the
\* division of two tiles each.
C19_Witness ==
    /\ strategy_history.mode = "history-based"
    /\ strategy_history.mp = 2
    /\ strategy_history.last_call = "start_strategy"
    /\ strategy_history.started = 1
    /\ strategy_history.window = <<>>
    /\ strategy_history.active.division = <<0, 0, 1, 1>>

\* With a measured record the history-based mode leaves the even division.
HistoryBasedAdapts ==
    /\ strategy_history.mode = "history-based"
    /\ strategy_history.window # <<>>
    /\ strategy_history.last_call = "start_strategy"
    /\ strategy_history.active.division # EvenDivision(strategy_history.mp)

\* ------------------------------------------------------------ entity ownership
\* Every live entity is held by some worker, and by one worker only
DisjointCover(g) ==
    /\ UNION {g.owned[r] : r \in DOMAIN g.owned} = g.entities
    /\ \A r, m \in DOMAIN g.owned : r # m => g.owned[r] \cap g.owned[m] = {}

\* C15: at every moment the workers' entity sets are pairwise disjoint and
\* together make up the full entity set, and a redistribution leaves the
\* total number of entities as it was.
C15_OwnershipIsADisjointCover ==
    /\ DisjointCover(gaussians)
    /\ gaussians.last_call = "redistribute_gaussians"
          => TotalCount(gaussians.owned) = TotalCount(gaussians.before)

\* A redistribution has moved at least one entity from one worker to another.
C15_Witness ==
    /\ gaussians.last_call = "redistribute_gaussians"
    /\ gaussians.transfers > 0
    /\ gaussians.owned # gaussians.before

\* Distance of a worker's count from its target
DistanceFromTarget(owned, r) ==
    LET d == CountOf(owned, r)
                - ((TotalCount(owned) \div Cardinality(DOMAIN owned))
                     + (IF r < TotalCount(owned) % Cardinality(DOMAIN owned)
                        THEN 1 ELSE 0))
    IN  IF d < 0 THEN 0 - d ELSE d

TimesInEvalBatches(num_cameras, camera) ==
    Cardinality({<<idx, j>> \in SeqToSet(RangeList(1, num_cameras + 1, args.dp_size))
                                  \X (1 .. args.dp_size) :
                    ((idx - 1 + j - 1) % num_cameras) + 1 = camera})

\* The histories of one evaluation pass are its own: made for the cameras of
\* its batches in mode 'evaluation', each with the strategies of this pass
\* only and with no measured record
StaticAndFresh(pass) ==
    \A c \in DOMAIN pass.cameraId2StrategyHistory :
       LET history == pass.cameraId2StrategyHistory[c]
       IN  /\ history.mode = "evaluation"
           /\ history.records = <<>>
           /\ history.started = TimesInEvalBatches(pass.num_cameras, c)
           /\ history.started > 0

\* C21: the strategies of an evaluation pass come from a map of histories
\* that is created anew for each validation config, in mode 'evaluation'; they
\* receive neither update_stats nor finish_strategy; and the pass leaves the
\* map of histories of the training loop as it was.
C21_EvaluationIsStatic ==
    [][\A r \in Ranks :
          (pc[r] = "training_report" /\ evaluation'[r] # evaluation[r])
             => /\ cameraId2StrategyHistory'[r] = cameraId2StrategyHistory[r]
                /\ \A p \in DOMAIN evaluation'[r] : StaticAndFresh(evaluation'[r][p])]_vars

\* A worker of a run of several workers has made an evaluation pass over
\* more than one camera while the training loop holds histories of its own.
C21_Witness ==
    \E r \in Ranks :
       /\ WORLD_SIZE > 1
       /\ evaluation[r] # NoEvaluation
       /\ Cardinality(DOMAIN evaluation[r][1].cameraId2StrategyHistory) > 1
       /\ DOMAIN cameraId2StrategyHistory[r] # {}
       /\ \A c \in DOMAIN cameraId2StrategyHistory[r] :
             cameraId2StrategyHistory[r][c].mode = args.workloads_division_mode

C23_TrueIffWindowHoldsResidual ==
    (call_record.fn = "check_update_at_this_iter" /\ call_record.out # <<>>)
       => (call_record.out[1] <=>
              \E k \in call_record.in[1] .. (call_record.in[1] + call_record.in[2] - 1) :
                 k % call_record.in[3] = call_record.in[4])

\* The function has returned True for a window longer than two intervals
\* whose first iteration is past the residual.
C23_Witness ==
    /\ call_record.fn = "check_update_at_this_iter"
    /\ call_record.out = <<TRUE>>
    /\ call_record.in[2] > 2 * call_record.in[3]
    /\ call_record.in[1] % call_record.in[3] > call_record.in[4]

\* ------------------------------------------------------------ densification and batching
\* C25: for fixed densify_from_iter, densify_until_iter and
\* densification_interval, a full run from iteration 1 in which the latch is
\* never set has as many densify_and_prune events with any batch size bsz <=
\* densification_interval as it has with batch size 1.
C25_SameCountForEveryBsz ==
    (call_record.fn = "densification" /\ call_record.out # <<>>)
       => call_record.out[1] =
             NumDensifications(call_record.in[1], 1, call_record.in[3],
                               call_record.in[4], call_record.in[5])

\* The counts agree when densify_from_iter and densify_until_iter are
\* multiples of densification_interval and the run is at least
\* densify_until_iter long.
SameCountWhenAligned ==
    (/\ call_record.fn = "densification" /\ call_record.out # <<>>
     /\ call_record.in[3] % call_record.in[5] = 0
     /\ call_record.in[4] % call_record.in[5] = 0
     /\ call_record.in[4] <= call_record.in[1])
       => call_record.out[1] =
             NumDensifications(call_record.in[1], 1, call_record.in[3],
                               call_record.in[4], call_record.in[5])

\* A full run with batches of 2 has had fewer events than batch size 1 has
\* for the same schedule.
C25_Witness ==
    /\ call_record.fn = "densification"
    /\ call_record.out # <<>>
    /\ call_record.in[2] = 2
    /\ call_record.out[1] <
          NumDensifications(call_record.in[1], 1, call_record.in[3],
                            call_record.in[4], call_record.in[5])

\* In the training runs that end with the latch unset, every worker has had
\* NumDensifications events.
DensificationsAsCounted ==
    \A r \in Ranks :
       (pc[r] = "done" /\ ~disable_auto_densification[r]
           /\ args.start_checkpoint = NoCheckpoint)
          => DENSIFY_ITER[r] =
                NumDensifications(args.iterations, args.bsz, args.densify_from_iter,
                                  args.densify_until_iter, args.densification_interval)

----------------------------------------------------------------------------
\* Saves and checkpoints of the configured iterations (train.py 176, 380-406)

\* start_from_this_iteration of worker r (train.py 148-158)
StartIteration(r) ==
    IF args.start_checkpoint = NoCheckpoint
    THEN 1
    ELSE args.start_checkpoint + args.bsz

\* The entries of disk_log[r] of one operation whose batch window holds s
SavesOf(r, op, s) ==
    {k \in DOMAIN disk_log[r] :
        /\ disk_log[r][k].op = op
        /\ disk_log[r][k].iteration <= s
        /\ s < disk_log[r][k].iteration + args.bsz}

\* Each configured iteration s of the run, never saved twice, and saved once
\* the loop of the worker has passed the batch of s
SavedOnce(r, op, iterations) ==
    /\ \A s \in iterations :
          StartIteration(r) <= s /\ s <= args.iterations =>
             /\ Cardinality(SavesOf(r, op, s)) <= 1
             /\ iteration[r] > s => Cardinality(SavesOf(r, op, s)) = 1
    /\ \A k \in DOMAIN disk_log[r] :
          disk_log[r][k].op = op =>
             /\ \E s \in iterations : k \in SavesOf(r, op, s)
             /\ \A j \in DOMAIN disk_log[r] :
                   disk_log[r][j] = disk_log[r][k] => j = k

\* C24: every configured save iteration and every configured checkpoint
\* iteration s with start iteration <= s <= total iterations is saved in
\* exactly one batch of the run, the batch whose window
\* iteration <= s < iteration + bsz holds it: a worker whose loop has passed s
\* has saved it once, and no batch saves twice or without a configured
\* iteration in its window.
C24_ConfiguredIterationSavedOnce ==
    \A r \in Ranks :
        /\ SavedOnce(r, "scene.save", args.save_iterations)
        /\ SavedOnce(r, "torch.save", args.checkpoint_iterations)

\* A run of batch size above 1 has ended with two save iterations in two
\* batches and two checkpoint iterations in two batches, none of them the
\* start of its batch
C24_Witness ==
    \E r \in Ranks :
        /\ pc[r] = "done"
        /\ args.bsz > 1
        /\ \E s \in args.save_iterations :
              \E k \in SavesOf(r, "scene.save", s) : disk_log[r][k].iteration < s
        /\ \E s \in args.checkpoint_iterations :
              \E k \in SavesOf(r, "torch.save", s) : disk_log[r][k].iteration < s
        /\ Cardinality({k \in DOMAIN disk_log[r] : disk_log[r][k].op = "scene.save"}) = 2
        /\ Cardinality({k \in DOMAIN disk_log[r] : disk_log[r][k].op = "torch.save"}) = 2

----------------------------------------------------------------------------
\* The folder of a checkpoint and the barrier (train.py 395-406)

\* The barriers of the checkpoint of iteration i that worker r has entered
CheckpointBarriersEntered(r, i) ==
    {k \in DOMAIN issued[r] :
        /\ issued[r][k].op = "barrier"
        /\ issued[r][k].site \in {402, 404}
        /\ issued[r][k].iter = i}

\* The iterations of the checkpoints whose barrier worker r has entered, and
\* of those whose file it has written
CheckpointsEntered(r) ==
    {issued[r][k].iter : k \in {k \in DOMAIN issued[r] : issued[r][k].site \in {402, 404}}}

CheckpointsWritten(r) ==
    {disk_log[r][k].iteration :
        k \in {k \in DOMAIN disk_log[r] : disk_log[r][k].op = "torch.save"}}

\* Worker r has created the folder of the checkpoint of iteration i
MadeFolder(r, i) ==
    \E k \in DOMAIN disk_log[r] : disk_log[r][k] = DiskEntry("os.makedirs", i)

\* Worker r has written its file of the checkpoint of iteration i
WroteFile(r, i) ==
    \E k \in DOMAIN disk_log[r] : disk_log[r][k] = DiskEntry("torch.save", i)

\* C30: during a checkpoint save no worker writes its checkpoint file before
\* rank 0 has created the folder: a worker that has written its file has
\* entered and left the GLOBAL barrier of that checkpoint, every worker has
\* entered it, rank 0 has entered it only after makedirs, no torch.save finds
\* the folder missing, and no worker enters the barrier of one checkpoint twice.
C30_SaveAfterFolderAndBarrier ==
    \A r \in Ranks :
        /\ pc[r] # "RuntimeError_torch_save"
        /\ \A i \in CheckpointsEntered(r) :
              /\ Cardinality(CheckpointBarriersEntered(r, i)) = 1
              /\ GroupRank(DEFAULT_GROUP[r], r) = 0 => MadeFolder(r, i)
        /\ \A i \in CheckpointsWritten(r) :
              /\ i \in CheckpointsEntered(r)
              /\ wait[r].iter # i \/ wait[r].site \notin {402, 404}
              /\ \A m \in Ranks :
                    /\ i \in CheckpointsEntered(m)
                    /\ GroupRank(DEFAULT_GROUP[m], m) = 0 => MadeFolder(m, i)

\* A worker of rank other than 0 has written its checkpoint file while rank 0
\* has not written its own yet
C30_Witness ==
    \E r, m \in Ranks :
        \E i \in CheckpointsWritten(r) :
            /\ GroupRank(DEFAULT_GROUP[r], r) # 0
            /\ GroupRank(DEFAULT_GROUP[m], m) = 0
            /\ ~WroteFile(m, i)
            /\ MadeFolder(m, i)

----------------------------------------------------------------------------
\* The histories of the workers (train.py 319-335, general_utils.py 206-219)

\* Worker r is past the strategy update of the batch of its iteration
StatsSettled(r) ==
    /\ pc[r] \notin {"update_stats_apply", "loop_head"}
    /\ ~Crashed(r)
    /\ wait[r].site # 325 /\ (queue[r] = <<>> \/ Head(queue[r]).site # 325)
    /\ \E k \in DOMAIN phases[r] : phases[r][k] = "update_stats"

\* The strategy update of the batch is due on worker r (train.py 321)
StatsDue(r) ==
    /\ iteration[r] > args.adjust_strategy_warmp_iterations
    /\ GroupSize(DEFAULT_GROUP[r]) > 1

\* The measured records of every view in the map of worker r
RecordsOf(r) ==
    [c \in DOMAIN cameraId2StrategyHistory[r] |-> cameraId2StrategyHistory[r][c].records]

----------------------------------------------------------------------------
\* The views of a batch over the rows and the micro steps (train.py 213-224)

\* The position in the batch of the view whose loss worker r has computed in
\* its k-th micro step, read from the loss it holds
RenderedView(r, k) == (batched_screenspace_pkg[r].losses[k] \div 100) - 1

\* The (DATA_PARALLEL rank, micro step) pairs that have rendered position p
RenderedPairs(p) ==
    {<<GroupRank(DP_GROUP[r], r), k - 1>> :
        <<r, k>> \in {<<r, k>> \in Ranks \X (1 .. num_samples_per_dp_worker) :
                         /\ k \in DOMAIN batched_screenspace_pkg[r].losses
                         /\ RenderedView(r, k) = p}}

\* Every worker has computed the losses of all its micro steps
MicroStepsDone ==
    \A r \in Ranks :
        /\ ~Crashed(r)
        /\ Len(batched_screenspace_pkg[r].losses) = num_samples_per_dp_worker

\* C26: when bsz is divisible by dp_size and the DATA_PARALLEL group has
\* dp_size members, the worker of DATA_PARALLEL rank d renders in micro step m
\* the view at batch index m + d * (bsz / dp_size) with the strategy at that
\* index, the members of one MODEL_PARALLEL group render the same view with
\* the same strategy in each micro step, and once the micro steps are done
\* each of the bsz views has been rendered by exactly one (row, micro step).
C26_EachViewRenderedByOneRowAndStep ==
    (/\ BszAssert(args.bsz, args.dp_size)
     /\ \A r \in Ranks : GroupSize(DP_GROUP[r]) = args.dp_size) =>
        /\ \A r \in Ranks :
              \A k \in DOMAIN batched_screenspace_pkg[r].losses :
                  /\ RenderedView(r, k) =
                        (k - 1) + GroupRank(DP_GROUP[r], r) * (args.bsz \div args.dp_size)
                  /\ local_render_strategy(r, k - 1) = RenderedView(r, k)
                  /\ \A r2 \in SeqToSet(MP_GROUP[r].ranks) :
                        k \in DOMAIN batched_screenspace_pkg[r2].losses =>
                           /\ RenderedView(r2, k) = RenderedView(r, k)
                           /\ local_render_strategy(r2, k - 1) = local_render_strategy(r, k - 1)
        /\ MicroStepsDone =>
              \A p \in 0 .. (args.bsz - 1) : Cardinality(RenderedPairs(p)) = 1

\* A grid of two rows of two workers has rendered a batch of four views in two
\* micro steps
C26_Witness ==
    /\ MicroStepsDone
    /\ args.dp_size = 2
    /\ args.bsz = 4
    /\ \A r \in Ranks : GroupSize(MP_GROUP[r]) = 2 /\ GroupSize(DP_GROUP[r]) = 2
    /\ \A p \in 0 .. 3 : Cardinality(RenderedPairs(p)) = 1

----------------------------------------------------------------------------
\* The losses handed to update_losses (train.py 343-352)

\* Worker r has handed a loss list to train_dataset.update_losses
LossesHanded(r) == losses_cpu[r] # <<>>

\* Entry i of the list of worker r is the loss computed for batched_cameras[i],
\* for every index i of the batch
LossesAligned(r) ==
    /\ Len(losses_cpu[r]) = args.bsz
    /\ \A i \in 1 .. args.bsz : (losses_cpu[r][i] \div 100) - 1 = i - 1

\* C28: the loss list handed to train_dataset.update_losses is aligned with
\* the batch: for every batch index i, entry i is the loss computed for
\* batched_cameras[i], both when the losses are all-gathered across a
\* DATA_PARALLEL group of more than one member and when the group has one.
C28_LossListAlignedWithBatch ==
    \A r \in Ranks : LossesHanded(r) => LossesAligned(r)

\* The same with as many DATA_PARALLEL rows as dp_size says
LossListAlignedWhenRowsMatch ==
    \A r \in Ranks :
        (LossesHanded(r) /\ GroupSize(DP_GROUP[r]) = args.dp_size) => LossesAligned(r)

\* A loss list gathered over two rows or more holds the losses of a batch of
\* more views than rows in the order of the batch
GatheredListAligned ==
    \E r \in Ranks :
        /\ LossesHanded(r)
        /\ GroupSize(DP_GROUP[r]) > 1
        /\ num_samples_per_dp_worker > 1
        /\ LossesAligned(r)

\* A single process with dp_size above 1 has handed a list shorter than its
\* batch
C28_Witness ==
    \E r \in Ranks :
        /\ LossesHanded(r)
        /\ GroupSize(DP_GROUP[r]) = 1
        /\ args.dp_size > 1
        /\ Len(losses_cpu[r]) < args.bsz

----------------------------------------------------------------------------
\* The sums of an evaluation pass (train.py 493-532)

\* Worker r has finished an evaluation, its reductions included
EvaluationDone(r) == Ready(r) /\ evaluation[r] # NoEvaluation

\* The (batch start idx, member of the DATA_PARALLEL group of r) pairs that
\* pass the guard of line 525
GuardPairs(r, num_cameras) ==
    {pair \in SeqToSet(EvalBatchStarts(num_cameras)) \X SeqToSet(DP_GROUP[r].ranks) :
        EvalGuard(pair[2], num_cameras, pair[1])}

\* The sum that holds the loss of each of the cameras 1 .. num_cameras once
EachOnce(num_cameras) ==
    SumOver([c \in 1 .. num_cameras |-> L1Of(c)], 1 .. num_cameras)

\* The passes of worker r count each camera once
CountedOnce(r) ==
    \A k \in DOMAIN evaluation[r] :
        /\ Cardinality(GuardPairs(r, evaluation[r][k].num_cameras))
              = evaluation[r][k].num_cameras
        /\ evaluation[r][k].l1_test = EachOnce(evaluation[r][k].num_cameras)

\* C29: in an evaluation pass over num_cameras cameras with any dp_size, each
\* camera contributes to the L1 sum exactly once across the DATA_PARALLEL
\* rows: the (batch start, dp rank) pairs that pass the guard
\* idx + dp_rank < num_cameras + 1 are num_cameras many, and the sum after the
\* reduction over the DATA_PARALLEL group holds every camera once, the
\* MODEL_PARALLEL replicas not counted twice.
C29_EachCameraCountedOnce ==
    \A r \in Ranks : EvaluationDone(r) => CountedOnce(r)

\* The same with as many DATA_PARALLEL rows as dp_size says
CountedOnceWhenRowsMatch ==
    \A r \in Ranks :
        (EvaluationDone(r) /\ GroupSize(DP_GROUP[r]) = args.dp_size) => CountedOnce(r)

\* Two rows have evaluated three cameras, a number that dp_size does not
\* divide, and hold each camera once in the reduced sum
ReducedOverRows ==
    \E r \in Ranks :
        /\ EvaluationDone(r)
        /\ GroupSize(DP_GROUP[r]) = 2
        /\ \E k \in DOMAIN evaluation[r] :
              /\ evaluation[r][k].num_cameras % args.dp_size # 0
              /\ evaluation[r][k].num_cameras > 1
              /\ evaluation[r][k].l1_test = EachOnce(evaluation[r][k].num_cameras)

\* Two MODEL_PARALLEL replicas of one row hold each camera once
ReplicasNotCountedTwice ==
    \E r \in Ranks :
        /\ EvaluationDone(r)
        /\ GroupSize(MP_GROUP[r]) = 2
        /\ CountedOnce(r)

\* A single process with dp_size above 1 has finished an evaluation whose sum
\* misses cameras
C29_Witness ==
    \E r \in Ranks :
        /\ EvaluationDone(r)
        /\ GroupSize(DP_GROUP[r]) = 1
        /\ args.dp_size > 1
        /\ \E k \in DOMAIN evaluation[r] :
              /\ Cardinality(GuardPairs(r, evaluation[r][k].num_cameras))
                    < evaluation[r][k].num_cameras
              /\ evaluation[r][k].l1_test < EachOnce(evaluation[r][k].num_cameras)

----------------------------------------------------------------------------
\* The collectives of a single process (general_utils.py 120-128, 193-197;
\* train.py 45-47, 95-108)

\* The run has one process: the four groups are the stand-in group
SingleProcess ==
    /\ WORLD_SIZE = 1
    /\ \A r \in Ranks : DEFAULT_GROUP[r] = SingleGPUGroup

\* The call sites at which worker r has invoked torch.distributed
SitesInvoked(r) == {issued[r][k].site : k \in DOMAIN issued[r]}

\* C32: with world size 1, where all four groups are the single-process
\* stand-in group, no torch.distributed collective (barrier, all_reduce,
\* all_gather_into_tensor) is invoked in any iteration of training, those that
\* densify, checkpoint or evaluate included.
C32_NoCollectiveInSingleProcess ==
    SingleProcess => \A r \in Ranks : issued[r] = <<>>

\* The calls behind a test of the group size are not invoked: a single
\* process invokes nothing but the barrier of more_sync (train.py 179), the
\* all-gather of the memory usage (102) and the barrier of the checkpoint (402)
OnlyUnguardedSitesInvoked ==
    SingleProcess => \A r \in Ranks : SitesInvoked(r) \subseteq {102, 179, 402}

\* A single process has reached the end of its run with neither a
\* densification event nor a checkpoint in it and has invoked nothing
SilentSingleProcess ==
    /\ SingleProcess
    /\ pc[0] = "done"
    /\ issued[0] = <<>>

\* A single process has invoked the all-gather of the memory usage of its
\* first densification event, and the call has raised
C32_Witness ==
    /\ SingleProcess
    /\ 102 \in SitesInvoked(0)
    /\ pc[0] = "AttributeError"

\* A single process has invoked the barrier of its first checkpoint, and the
\* call has raised
BarrierRaisedInSingleProcess ==
    /\ SingleProcess
    /\ 402 \in SitesInvoked(0)
    /\ pc[0] = "AttributeError"

----------------------------------------------------------------------------
\* What a checkpoint holds and what a resumed run trains (train.py 148-158,
\* 395-455)

\* The batches of a run that have an optimizer step: those that start before
\* args.iterations (train.py 176, 409)
SteppedBatches == BatchesBefore(args.iterations, args.bsz)

\* Worker r started from a checkpoint and has left the training loop
ResumedRunDone(r) ==
    /\ args.start_checkpoint # NoCheckpoint
    /\ pc[r] = "done"

\* C31: a checkpoint labelled with the batch start i holds the state after the
\* optimizer step of batch i, so that restoring it and resuming at i + bsz
\* applies the update of every batch exactly once over the saved run and the
\* resumed run together: no update is lost and none is applied twice.
C31_CheckpointHoldsStepOfItsBatch ==
    /\ \A f \in checkpoints :
          f.iteration \in SteppedBatches => f.iteration \in f.model_params.updates
    /\ \A r \in Ranks :
          ResumedRunDone(r) => model_params[r].updates = SteppedBatches

\* No batch is trained twice: an optimizer step is never about to be applied
\* for a batch whose update the parameters already hold
NoBatchTrainedTwice ==
    \A r \in Ranks :
       pc[r] = "optimizer_step" => iteration[r] \notin model_params[r].updates

\* The update that a resumed run lacks at its end is the one of the batch that
\* labels the checkpoint, and no other
LostUpdateIsOfCheckpointBatch ==
    \A r \in Ranks :
       ResumedRunDone(r)
          => SteppedBatches \ model_params[r].updates = {args.start_checkpoint}

\* A worker has finished a run resumed from the checkpoint of batch i, and
\* its parameters hold the updates of the other batches and not the one of i
C31_Witness ==
    \E r \in Ranks :
       /\ ResumedRunDone(r)
       /\ args.start_checkpoint \in SteppedBatches
       /\ args.start_checkpoint \notin model_params[r].updates
       /\ iteration[r] > args.start_checkpoint + args.bsz

----------------------------------------------------------------------------
\* The iterations after the memory latch is set (train.py 60-124;
\* general_utils.py 89-95)

\* The steps of the densification branch that the phase log records
BranchSteps ==
    {"densify_and_prune", "redistribute_gaussians", "allgather_memory_usage",
     "memory_check", "reset_opacity"}

\* The calls of the all-gather of the memory usage among calls
MemoryGathers(calls) == {k \in DOMAIN calls : calls[k].site = 102}

\* The steps of the branch in log
StepsOfBranch(log) == {k \in DOMAIN log : log[k] \in BranchSteps}

\* C33: once the memory latch is set the whole densification branch is
\* disabled for the rest of the run.  In every step after the one of
\* train.py 103-115 that sets the latch (which still counts its own event and
\* makes the opacity reset of its own iteration), so in every later iteration,
\* there is no densify_and_prune, no redistribute_gaussians, no opacity
\* reset and no further all-gather of the memory usage, and DENSIFY_ITER keeps
\* its value.
C33_BranchOffAfterLatch ==
    [][\A r \in Ranks :
          disable_auto_densification[r] =>
             /\ DENSIFY_ITER'[r] = DENSIFY_ITER[r]
             /\ MemoryGathers(issued'[r]) = MemoryGathers(issued[r])
             /\ \A k \in MemoryGathers(queue'[r]) : k \in MemoryGathers(queue[r])
             /\ StepsOfBranch(phases'[r]) \subseteq StepsOfBranch(phases[r])
      ]_vars

\* A latched worker has passed densification() in a later iteration than the
\* one of its last event, an iteration in which the opacity reset was due:
\* nothing of the branch was done and the counter holds the events before
\* the latch.
C33_Witness ==
    \E r \in Ranks :
        /\ disable_auto_densification[r]
        /\ pc[r] = PhaseAfter("densification")
        /\ iteration[r] <= args.densify_until_iter
        /\ ResetOpacity(r) # <<>>
        /\ StepsOfBranch(phases[r]) = {}
        /\ DENSIFY_ITER[r] = Cardinality(MemoryGathers(issued[r]))
        /\ \A k \in MemoryGathers(issued[r]) : issued[r][k].iter < iteration[r]

----------------------------------------------------------------------------
\* The optimizer step and the gradient reset (train.py 176, 408-455)

\* Worker r is leaving the optimizer phase of its iteration
LeavesOptimizerPhase(r) == pc[r] = "optimizer_step" /\ pc'[r] # "optimizer_step"

\* gaussians.optimizer.step() has been executed for the iteration
StepExecuted(r) == iteration[r] \in model_params'[r].updates

\* gaussians.optimizer.zero_grad has been executed: the parameters hold the
\* gradients of the micro steps before, and none after
ZeroGradExecuted(r) == param_grad[r] # {} /\ param_grad'[r] = {}

\* Every gradient that worker r holds is one of its current iteration
NoGradientCarried(r) == \A g \in param_grad[r] : g[1] = iteration[r]

\* In an iteration of the loop no gradient of an earlier iteration is left
GradientsOfCurrentIteration ==
    \A r \in Ranks : iteration[r] <= args.iterations => NoGradientCarried(r)

\* C34 as stated: the optimizer step and the gradient reset are executed in
\* every iteration whose batch start is strictly less than args.iterations
\* and in no other, so the gradients of an iteration are consumed by exactly
\* one optimizer step and never carried into the next iteration.
C34_StepAndResetBeforeTotal ==
    [][\A r \in Ranks :
          LeavesOptimizerPhase(r) =>
             /\ StepExecuted(r) <=> iteration[r] < args.iterations
             /\ ZeroGradExecuted(r) <=> iteration[r] < args.iterations
      ]_vars

\* C34, amended: the gradient reset is executed in every iteration whose
\* batch start is strictly less than args.iterations and in no other; the
\* optimizer step is executed in those iterations unless
\* args.stop_update_param is set, and in no other.  The gradients of an
\* iteration are consumed by at most one optimizer step, by exactly one when
\* the batch starts before args.iterations and stop_update_param is not set,
\* and are never carried into the next iteration.
C34_ResetBeforeTotalStepUnlessStopped ==
    [][\A r \in Ranks :
          /\ LeavesOptimizerPhase(r) =>
                /\ StepExecuted(r) <=>
                      (iteration[r] < args.iterations /\ ~args.stop_update_param)
                /\ ZeroGradExecuted(r) <=> iteration[r] < args.iterations
                /\ iteration[r] \notin model_params[r].updates
          /\ (~LeavesOptimizerPhase(r) /\ pc[r] # "training_setup") =>
                model_params'[r].updates = model_params[r].updates
          /\ iteration'[r] <= args.iterations =>
                \A g \in param_grad'[r] : g[1] = iteration'[r]
      ]_vars

\* With stop_update_param a worker has left the optimizer phase of an
\* iteration that starts before args.iterations: the gradients of its micro
\* steps are reset and no step has consumed them.
C34_Witness ==
    \E r \in Ranks :
        /\ args.stop_update_param
        /\ pc[r] = PhaseAfter("optimizer_step")
        /\ iteration[r] < args.iterations
        /\ "backward" \in {phases[r][k] : k \in DOMAIN phases[r]}
        /\ "optimizer_step" \in {phases[r][k] : k \in DOMAIN phases[r]}
        /\ param_grad[r] = {}
        /\ iteration[r] \notin model_params[r].updates

\* Without the flag a worker has left the optimizer phase of such an
\* iteration with the step made and the gradients reset
SteppedAndReset ==
    \E r \in Ranks :
        /\ ~args.stop_update_param
        /\ pc[r] = PhaseAfter("optimizer_step")
        /\ iteration[r] < args.iterations
        /\ param_grad[r] = {}
        /\ iteration[r] \in model_params[r].updates

\* A worker has left the optimizer phase of the iteration that starts at
\* args.iterations: no step, no reset, and the gradients of its micro steps
\* stay on the parameters to the end of the run
LastGradientsKept ==
    \E r \in Ranks :
        /\ pc[r] = "done"
        /\ param_grad[r] # {}
        /\ \A g \in param_grad[r] : g[1] = args.iterations
====
